---- MODULE Spec2Model ----
(***************************************************************************)
(* The asymptotic limit engine of sympy/series/limits2.py (the Gruntz      *)
(* algorithm) over the expression core of sympy/core.                      *)
(*                                                                         *)
(* Expression nodes are immutable tagged tuples:                           *)
(*   <<"num", p, q>>     Rational p/q in lowest terms, q > 0               *)
(*   <<"inf", s>>        oo (s = 1) and -oo (s = -1)                       *)
(*   <<"sym", name, n>>  Symbol; n = 0 for a user symbol, n > 0 the serial *)
(*                       number of a dummy symbol                          *)
(*   <<"add", T>>        Add, T the set of its terms                       *)
(*   <<"mul", c, F>>     Mul, c the numeric coefficient, F the factors     *)
(*   <<"pow", b, e>>     Pow                                               *)
(*   <<"exp", a>>, <<"log", a>>   the two first-class functions            *)
(*   <<"fn", name, args>>  any other Function, args a sequence             *)
(*   <<"Limit2", e, x, x0>>  the unevaluated limit node                    *)
(* A raised exception is the value <<"err", kind>>; it propagates through  *)
(* every constructor and every operation, as an exception unwinds calls.   *)
(***************************************************************************)
EXTENDS Integers, Sequences, FiniteSets, TLC

VARIABLES pc, call, res, dummycount, node, order, Omega_default, stack,
          chain,
          mhash, objs, frames, ret, running, done, returned

\* the hash cache of the nodes and the threads that call hash() on them
hvars == <<mhash, objs, frames, ret, running, done, returned>>

\* the calls of the limit engine
lvars == <<pc, call, res, dummycount, node, order, Omega_default, stack, chain>>

vars == <<lvars, hvars>>

----------------------------------------------------------------------------
(* Calls.  The operations of the engine call one another in cycles         *)
(* (limitinf -> mrv_leadterm -> rewrite -> mrv -> compare -> limitinf, and *)
(* Add -> Mul -> Pow -> Mul in the core).  Each such operation f of the    *)
(* source is defined once, as f_def, and a call f(args) is evaluated by    *)
(* the one recursive operator Call: Call(<<"f", args>>) = f_def(args).     *)

RECURSIVE Call(_)

Add(a, b) == Call(<<"Add", a, b>>)

Mul(a, b) == Call(<<"Mul", a, b>>)

Pow(b, e) == Call(<<"Pow", b, e>>)

exp(arg) == Call(<<"exp", arg>>)

log(arg) == Call(<<"log", arg>>)

subs(e, old, new) == Call(<<"subs", e, old, new>>)

Distribute(a, b) == Call(<<"Distribute", a, b>>)

expand(e) == Call(<<"expand", e>>)

evalf(e) == Call(<<"evalf", e>>)

leadterm(e, x) == Call(<<"leadterm", e, x>>)

Ser(e, w, K) == Call(<<"Ser", e, w, K>>)

compare(a, b, x) == Call(<<"compare", a, b, x>>)

mrv(e, x) == Call(<<"mrv", e, x>>)

mrv_max_of(f, g, x, a, b) == Call(<<"mrv_max_of", f, g, x, a, b>>)

sign(e, x) == Call(<<"sign", e, x>>)

rewrite(e, Omega, x, wsym) == Call(<<"rewrite", e, Omega, x, wsym>>)

limitinf(e, x) == Call(<<"limitinf", e, x>>)

mrv_leadterm(e, x, Omega0) == Call(<<"mrv_leadterm", e, x, Omega0>>)

limit(e, z, z0, dir) == Call(<<"limit", e, z, z0, dir>>)

limitinf_frame(e, x) == Call(<<"limitinf_frame", e, x>>)

limit_frame(e, z, z0, dir) == Call(<<"limit_frame", e, z, z0, dir>>)

Chain(e, x, n) == Call(<<"Chain", e, x, n>>)

limit_chain(e, z, z0, dir) == Call(<<"limit_chain", e, z, z0, dir>>)

SortOmega(S, x) == Call(<<"SortOmega", S, x>>)

MoveupList(l, x) == Call(<<"MoveupList", l, x>>)

MovedownList(l, x) == Call(<<"MovedownList", l, x>>)

----------------------------------------------------------------------------
(* Exceptions *)

Err(kind) == <<"err", kind>>

IsErr(v) == v[1] = "err"

NotImplementedError == Err("NotImplementedError")

AssertionError == Err("AssertionError")

ValueError == Err("ValueError")

\* limits2.py raises a bare string from sign()
StringException == Err("cannot determine the sign")

\* RuntimeError: maximum recursion depth exceeded, of a call that recurses
\* on its own arguments
RecursionError == Err("RuntimeError")

pole_error == Err("pole_error")

----------------------------------------------------------------------------
(* Numbers: exact rationals *)

Abs(n) == IF n < 0 THEN -n ELSE n

RECURSIVE GCD(_, _)
GCD(a, b) == IF b = 0 THEN a ELSE GCD(b, a % b)

Rational(p, q) ==
    LET g == GCD(Abs(p), Abs(q))
        s == IF q < 0 THEN -1 ELSE 1
    IN  <<"num", (s * p) \div g, (s * q) \div g>>

Zero == Rational(0, 1)

One == Rational(1, 1)

MinusOne == Rational(-1, 1)

oo == <<"inf", 1>>

moo == <<"inf", -1>>

IsNum(e) == e[1] = "num"

IsInf(e) == e[1] = "inf"

IsInt(e) == IsNum(e) /\ e[3] = 1

QAdd(a, b) == Rational(a[2] * b[3] + b[2] * a[3], a[3] * b[3])

QMul(a, b) == Rational(a[2] * b[2], a[3] * b[3])

QNeg(a) == Rational(-a[2], a[3])

QSign(a) == IF a[2] > 0 THEN 1 ELSE IF a[2] < 0 THEN -1 ELSE 0

QLess(a, b) == a[2] * b[3] < b[2] * a[3]

RECURSIVE IntPow(_, _)
IntPow(b, n) == IF n = 0 THEN 1 ELSE b * IntPow(b, n - 1)

\* a rational to an integer power; a is not zero when n < 0
QPow(a, n) ==
    IF n >= 0 THEN Rational(IntPow(a[2], n), IntPow(a[3], n))
    ELSE Rational(IntPow(a[3], -n), IntPow(a[2], -n))

----------------------------------------------------------------------------
(* Symbols *)

Symbol(name) == <<"sym", name, 0>>

\* Symbol(name, dummy=True): the n-th dummy symbol created
Dummy(name, n) == <<"sym", name, n>>

IsSymbol(e) == e[1] = "sym"

----------------------------------------------------------------------------
(* Add: terms collected by their non-numeric part *)

CoeffOf(t) == IF t[1] = "num" THEN t ELSE IF t[1] = "mul" THEN t[2] ELSE One

RestOf(t) ==
    IF t[1] = "num" THEN One
    ELSE IF t[1] = "mul"
         THEN IF Cardinality(t[3]) = 1 THEN CHOOSE f \in t[3] : TRUE
              ELSE <<"mul", One, t[3]>>
         ELSE t

Term(c, r) ==
    IF c = Zero THEN Zero
    ELSE IF r = One THEN c
    ELSE IF c = One THEN r
    ELSE IF r[1] = "mul" THEN <<"mul", c, r[3]>>
    ELSE <<"mul", c, {r}>>

Terms(e) == IF e = Zero THEN {} ELSE IF e[1] = "add" THEN e[2] ELSE {e}

CoeffIn(T, r) ==
    LET M == {t \in T : RestOf(t) = r}
    IN  IF M = {} THEN Zero ELSE CoeffOf(CHOOSE t \in M : TRUE)

FromTerms(N) ==
    IF N = {} THEN Zero
    ELSE IF Cardinality(N) = 1 THEN CHOOSE t \in N : TRUE
    ELSE <<"add", N>>

Add_def(a, b) ==
    IF a[1] = "err" THEN a
    ELSE IF b[1] = "err" THEN b
    \* two numbers add up to a number
    ELSE IF IsNum(a) /\ IsNum(b) THEN QAdd(a, b)
    ELSE LET Ta == Terms(a)
             Tb == Terms(b)
             R  == {RestOf(t) : t \in Ta \cup Tb}
         IN  FromTerms({Term(QAdd(CoeffIn(Ta, r), CoeffIn(Tb, r)), r) : r \in R}
                       \ {Zero})

----------------------------------------------------------------------------
(* Mul and Pow: factors collected by their base *)

Factors(e) == IF e[1] = "num" THEN {} ELSE IF e[1] = "mul" THEN e[3] ELSE {e}

BaseOf(f) == IF f[1] = "pow" THEN f[2] ELSE f

ExpOf(f) == IF f[1] = "pow" THEN f[3] ELSE One

ExpIn(F, b) ==
    LET M == {f \in F : BaseOf(f) = b}
    IN  IF M = {} THEN Zero ELSE ExpOf(CHOOSE f \in M : TRUE)

FromFactors(c, F) ==
    IF c = Zero THEN Zero
    ELSE IF F = {} THEN c
    ELSE IF c = One /\ Cardinality(F) = 1 THEN CHOOSE f \in F : TRUE
    ELSE <<"mul", c, F>>

RECURSIVE QProd(_)
QProd(S) ==
    IF S = {} THEN One
    ELSE LET n == CHOOSE n \in S : TRUE IN QMul(n, QProd(S \ {n}))

RECURSIVE PowFactors(_, _)

Mul_def(a, b) ==
    IF a[1] = "err" THEN a
    ELSE IF b[1] = "err" THEN b
    \* two numbers multiply to a number
    ELSE IF IsNum(a) /\ IsNum(b) THEN QMul(a, b)
    ELSE IF IsInf(a) /\ IsNum(b) /\ b # Zero THEN <<"inf", a[2] * QSign(b)>>
    ELSE IF IsInf(b) /\ IsNum(a) /\ a # Zero THEN <<"inf", b[2] * QSign(a)>>
    ELSE LET Fa == Factors(a)
             Fb == Factors(b)
             B  == {BaseOf(f) : f \in Fa \cup Fb}
             P  == {Pow(base, Add(ExpIn(Fa, base), ExpIn(Fb, base))) : base \in B}
             bad == {p \in P : p[1] = "err"}
         IN  IF bad # {} THEN CHOOSE p \in bad : TRUE
             ELSE FromFactors(QMul(QMul(CoeffOf(a), CoeffOf(b)),
                                   QProd({p \in P : IsNum(p)})),
                              {p \in P : ~IsNum(p)})

\* the product of f^e over the factors f of F
PowFactors(F, e) ==
    IF F = {} THEN One
    ELSE LET f == CHOOSE f \in F : TRUE
         IN  Mul(Pow(f, e), PowFactors(F \ {f}, e))

Pow_def(b, e) ==
    IF b[1] = "err" THEN b
    ELSE IF e[1] = "err" THEN e
    ELSE IF e = Zero THEN One
    ELSE IF e = One THEN b
    ELSE IF b = One THEN One
    ELSE IF IsNum(b) /\ IsNum(e) /\ b = Zero
         THEN IF QSign(e) > 0 THEN Zero ELSE pole_error
    ELSE IF IsNum(b) /\ IsInt(e) THEN QPow(b, e[2])
    ELSE IF b[1] = "pow" /\ IsInt(e) THEN Pow(b[2], Mul(b[3], e))
    ELSE IF b[1] = "mul" /\ IsInt(e)
         THEN Mul(Pow(b[2], e), PowFactors(b[3], e))
    ELSE <<"pow", b, e>>

Neg(a) == Mul(MinusOne, a)

Sub(a, b) == Add(a, Neg(b))

Div(a, b) == Mul(a, Pow(b, MinusOne))

RECURSIVE SumSet(_)
SumSet(S) ==
    IF S = {} THEN Zero
    ELSE LET t == CHOOSE t \in S : TRUE IN Add(t, SumSet(S \ {t}))

RECURSIVE ProdSet(_)
ProdSet(S) ==
    IF S = {} THEN One
    ELSE LET f == CHOOSE f \in S : TRUE IN Mul(f, ProdSet(S \ {f}))

----------------------------------------------------------------------------
(* exp and log with their construction-time evaluation *)

\* exp whose eval leaves exp(log(a)) as it is
exp_nolog(arg) ==
    IF arg[1] = "err" THEN arg
    ELSE IF arg = Zero THEN One
    ELSE <<"exp", arg>>

exp_def(arg) ==
    IF arg[1] = "err" THEN arg
    ELSE IF arg = Zero THEN One
    ELSE IF arg[1] = "log" THEN arg[2]
    ELSE <<"exp", arg>>

RECURSIVE LogSum(_)

\* log(a) + log(b) over the factors of a Mul, as getab() splits it
LogSum(S) ==
    IF S = {} THEN Zero
    ELSE LET f == CHOOSE f \in S : TRUE IN Add(log(f), LogSum(S \ {f}))

log_def(arg) ==
    IF arg[1] = "err" THEN arg
    ELSE IF arg = One THEN Zero
    ELSE IF arg[1] = "exp" THEN arg[2]
    ELSE IF arg[1] = "mul" THEN LogSum(arg[3] \cup ({arg[2]} \ {One}))
    ELSE IF arg[1] = "pow" THEN Mul(arg[3], log(arg[2]))
    ELSE <<"log", arg>>

\* any other Function node
Fn(name, args) ==
    LET bad == {i \in DOMAIN args : IsErr(args[i])}
    IN  IF bad # {} THEN args[CHOOSE i \in bad : TRUE]
        ELSE <<"fn", name, args>>

\* the unevaluated limit node Limit2(e, x, x0)
Limit2(e, x, x0) ==
    IF e[1] = "err" THEN e
    ELSE IF x[1] = "err" THEN x
    ELSE IF x0[1] = "err" THEN x0
    ELSE <<"Limit2", e, x, x0>>

----------------------------------------------------------------------------
(* Substitution, containment, expansion, binary decomposition *)

RECURSIVE SubsSum(_, _, _), SubsProd(_, _, _)

SubsSum(S, old, new) ==
    IF S = {} THEN Zero
    ELSE LET t == CHOOSE t \in S : TRUE
         IN  Add(subs(t, old, new), SubsSum(S \ {t}, old, new))

SubsProd(S, old, new) ==
    IF S = {} THEN One
    ELSE LET f == CHOOSE f \in S : TRUE
         IN  Mul(subs(f, old, new), SubsProd(S \ {f}, old, new))

\* Basic.subs replaces a node equal to old; the composite nodes rebuild
\* themselves from their substituted arguments.  kind is the first test
\* that holds
subs_def(e, old, new) ==
    LET kind == IF e[1] = "err" THEN "err"
                ELSE IF old[1] = "err" THEN "errold"
                ELSE IF new[1] = "err" THEN "errnew"
                ELSE IF e = old THEN "old"
                ELSE e[1]
    IN  CASE kind = "err" -> e
          [] kind = "errold" -> old
          [] kind = "errnew" -> new
          [] kind = "old" -> new
          [] kind = "add" -> SubsSum(e[2], old, new)
          [] kind = "mul" -> Mul(e[2], SubsProd(e[3], old, new))
          [] kind = "pow" -> Pow(subs(e[2], old, new), subs(e[3], old, new))
          [] kind = "exp" -> exp(subs(e[2], old, new))
          [] kind = "log" -> log(subs(e[2], old, new))
          [] kind = "fn" ->
                 Fn(e[2], [i \in DOMAIN e[3] |-> subs(e[3][i], old, new)])
          [] kind = "Limit2" ->
                 Limit2(subs(e[2], old, new), subs(e[3], old, new),
                        subs(e[4], old, new))
          [] OTHER -> e

has(e, sub) == subs(e, sub, Symbol("dummy")) # e

\* the terms of a and of b multiplied out
RECURSIVE MulTerm(_, _)
MulTerm(t, Tb) ==
    IF Tb = {} THEN Zero
    ELSE LET u == CHOOSE u \in Tb : TRUE
         IN  Add(Mul(t, u), MulTerm(t, Tb \ {u}))

RECURSIVE MulOut(_, _)
MulOut(Ta, Tb) ==
    IF Ta = {} THEN Zero
    ELSE LET t == CHOOSE t \in Ta : TRUE
         IN  Add(MulTerm(t, Tb), MulOut(Ta \ {t}, Tb))

Distribute_def(a, b) ==
    IF a[1] = "err" THEN a
    ELSE IF b[1] = "err" THEN b
    \* neither is a sum: the one product
    ELSE IF a[1] # "add" /\ b[1] # "add" THEN Mul(a, b)
    ELSE MulOut(Terms(a), Terms(b))

RECURSIVE ExpandSum(_), ExpandProd(_), ExpandPow(_, _)

ExpandSum(S) ==
    IF S = {} THEN Zero
    ELSE LET t == CHOOSE t \in S : TRUE
         IN  Add(expand(t), ExpandSum(S \ {t}))

ExpandProd(S) ==
    IF S = {} THEN One
    ELSE LET f == CHOOSE f \in S : TRUE
         IN  Distribute(expand(f), ExpandProd(S \ {f}))

ExpandPow(b, n) == IF n = 0 THEN One ELSE Distribute(b, ExpandPow(b, n - 1))

expand_def(e) ==
    IF e[1] = "err" THEN e
    ELSE IF e[1] = "add" THEN ExpandSum(e[2])
    ELSE IF e[1] = "mul" THEN Distribute(e[2], ExpandProd(e[3]))
    ELSE IF e[1] = "pow"
         THEN IF IsInt(e[3]) /\ e[3][2] > 0 /\ e[2][1] = "add"
              THEN ExpandPow(expand(e[2]), e[3][2])
              ELSE Pow(expand(e[2]), expand(e[3]))
    ELSE IF e[1] = "exp" THEN exp(expand(e[2]))
    ELSE e

\* Add and Mul as (first argument, the rest recombined)
as_two_terms(e) ==
    IF e[1] = "add"
    THEN LET t == CHOOSE t \in e[2] : TRUE IN <<t, FromTerms(e[2] \ {t})>>
    ELSE IF e[2] # One THEN <<e[2], FromFactors(One, e[3])>>
    ELSE LET f == CHOOSE f \in e[3] : TRUE IN <<f, FromFactors(One, e[3] \ {f})>>

----------------------------------------------------------------------------
(* evalf: numeric evaluation, here in fixed point with three decimals.     *)
(* A value is <<"real", v>> standing for v/1000.                           *)

Real(v) == <<"real", v>>

FixMul(a, b) ==
    (IF (a < 0) = (b < 0) THEN 1 ELSE -1) * ((Abs(a) * Abs(b)) \div 1000)

FixDiv(a, b) ==
    (IF (a < 0) = (b < 0) THEN 1 ELSE -1) * ((Abs(a) * 1000) \div Abs(b))

RECURSIVE FixPow(_, _)
FixPow(a, n) == IF n = 0 THEN 1000 ELSE FixMul(a, FixPow(a, n - 1))

\* math.log of v/1000 for v > 0
RECURSIVE LnFix(_)
LnFix(v) ==
    IF v >= 2000 THEN 693 + LnFix(v \div 2)
    ELSE IF v < 1000 THEN LnFix(v * 2) - 693
    ELSE LET y  == ((v - 1000) * 1000) \div (v + 1000)
             y2 == FixMul(y, y)
             y3 == FixMul(y, y2)
             y5 == FixMul(y3, y2)
         IN  2 * (y + y3 \div 3 + y5 \div 5)

\* the exponential series of exp.evalf
RECURSIVE ExpFix(_)
ExpFix(v) ==
    IF Abs(v) > 500
    THEN LET h == ExpFix((IF v < 0 THEN -1 ELSE 1) * (Abs(v) \div 2))
         IN  FixMul(h, h)
    ELSE LET v2 == FixMul(v, v)
             v3 == FixMul(v2, v)
             v4 == FixMul(v3, v)
         IN  1000 + v + v2 \div 2 + v3 \div 6 + v4 \div 24

RECURSIVE EvalfSum(_), EvalfProd(_)

EvalfSum(S) ==
    IF S = {} THEN Real(0)
    ELSE LET t == CHOOSE t \in S : TRUE
             a == evalf(t)
             b == EvalfSum(S \ {t})
         IN  IF a[1] = "err" THEN a ELSE IF b[1] = "err" THEN b ELSE Real(a[2] + b[2])

EvalfProd(S) ==
    IF S = {} THEN Real(1000)
    ELSE LET f == CHOOSE f \in S : TRUE
             a == evalf(f)
             b == EvalfProd(S \ {f})
         IN  IF a[1] = "err" THEN a ELSE IF b[1] = "err" THEN b
             ELSE Real(FixMul(a[2], b[2]))

evalf_def(e) ==
    IF e[1] = "err" THEN e
    ELSE IF e[1] = "num"
         THEN Real((IF e[2] < 0 THEN -1 ELSE 1) * ((Abs(e[2]) * 1000) \div e[3]))
    ELSE IF e[1] = "add" THEN EvalfSum(e[2])
    ELSE IF e[1] = "mul" THEN EvalfProd(e[3] \cup {e[2]})
    ELSE IF e[1] = "pow"
         THEN LET b == evalf(e[2])
                  n == evalf(e[3])
              IN  IF b[1] = "err" THEN b
                  ELSE IF n[1] = "err" THEN n
                  ELSE IF IsInt(e[3]) /\ e[3][2] > 0
                       THEN Real(FixPow(b[2], e[3][2]))
                  ELSE IF b[2] = 0 THEN Err("ZeroDivisionError")
                  ELSE IF IsInt(e[3])
                       THEN Real(FixDiv(1000, FixPow(b[2], -e[3][2])))
                  ELSE IF b[2] < 0 THEN ValueError
                  ELSE Real(ExpFix(FixMul(n[2], LnFix(b[2]))))
    ELSE IF e[1] = "exp"
         THEN LET a == evalf(e[2])
              IN  IF a[1] = "err" THEN a ELSE Real(ExpFix(a[2]))
    ELSE IF e[1] = "log"
         THEN LET a == evalf(e[2])
              IN  IF a[1] = "err" THEN a
                  ELSE IF a[2] <= 0 THEN ValueError
                  ELSE Real(LnFix(a[2]))
    ELSE ValueError

----------------------------------------------------------------------------
(* Basic.leadterm: the leading term c0*x^e0 as <<"lt", c0, e0>> *)

LT(c, e) == <<"lt", c, e>>

\* Rational(10)**10, the starting value of the lowest exponent; every
\* exponent the model builds is below it
TenToTen == <<"big", 10, 10>>

extract(t, x) ==
    IF t[1] = "err" THEN t
    ELSE IF ~has(t, x) THEN LT(t, Zero)
    ELSE IF t[1] = "pow" THEN LT(One, t[3])
    ELSE IF IsSymbol(t) THEN LT(One, One)
    ELSE IF t[1] # "mul" THEN AssertionError
    ELSE LET H == {a \in t[3] : has(a, x)}
         IN  IF H = {} THEN LT(t, Zero)
             ELSE LET a == CHOOSE a \in H : TRUE
                  IN  IF a[1] = "pow"
                      THEN LT(FromFactors(t[2], t[3] \ {a}), a[3])
                      ELSE IF IsSymbol(a)
                      THEN LT(FromFactors(t[2], t[3] \ {a}), One)
                      ELSE AssertionError

\* (lowest[1] - t2[1]).evalf(), which raises when an exponent is no number
ExponentGap(e2, lowest) ==
    IF lowest = TenToTen
    THEN LET v == evalf(e2) IN IF v[1] = "err" THEN v ELSE Real(1)
    ELSE evalf(Sub(lowest, e2))

\* the loop of leadterm over the terms args[i..] of an Add
RECURSIVE LeadLoop(_, _, _, _, _)
LeadLoop(args, i, lowest, x, l) ==
    IF i > Len(args) THEN lowest
    ELSE LET t2 == extract(subs(args[i], log(x), Neg(l)), x)
         IN  IF t2[1] = "err" THEN t2
             ELSE LET gap == ExponentGap(t2[3], lowest[3])
                  IN  IF gap[1] = "err" THEN gap
                      ELSE IF gap[2] > 0 THEN LeadLoop(args, i + 1, t2, x, l)
                      ELSE IF t2[3] = lowest[3]
                      THEN LeadLoop(args, i + 1,
                                    LT(Add(lowest[2], t2[2]), lowest[3]), x, l)
                      ELSE LeadLoop(args, i + 1, lowest, x, l)

\* the arguments of an Add or Mul in their stored order
RECURSIVE ArgSeq(_)
ArgSeq(S) ==
    IF S = {} THEN <<>>
    ELSE LET t == CHOOSE t \in S : TRUE IN <<t>> \o ArgSeq(S \ {t})

\* the loop with terms of an equal exponent dropped instead of summed
RECURSIVE LeadLoopFirst(_, _, _, _, _)
LeadLoopFirst(args, i, lowest, x, l) ==
    IF i > Len(args) THEN lowest
    ELSE LET t2 == extract(subs(args[i], log(x), Neg(l)), x)
         IN  IF t2[1] = "err" THEN t2
             ELSE LET gap == ExponentGap(t2[3], lowest[3])
                  IN  IF gap[1] = "err" THEN gap
                      ELSE IF gap[2] > 0 THEN LeadLoopFirst(args, i + 1, t2, x, l)
                      ELSE LeadLoopFirst(args, i + 1, lowest, x, l)

leadterm_nosum(e, x) ==
    IF e[1] = "err" THEN e
    ELSE IF e[1] # "add" THEN extract(e, x)
    ELSE LeadLoopFirst(ArgSeq(e[2]), 1, LT(Zero, TenToTen), x, Dummy("l", dummycount + 3))

leadterm_def(e, x) ==
    IF e[1] = "err" THEN e
    ELSE IF e[1] # "add" THEN extract(e, x)
    ELSE LET l == Dummy("l", dummycount + 3)
             lowest == LeadLoop(ArgSeq(e[2]), 1, LT(Zero, TenToTen), x, l)
         IN  IF lowest[1] = "err" THEN lowest
             ELSE LT(subs(lowest[2], l, Neg(log(x))),
                     subs(lowest[3], l, Neg(log(x))))

----------------------------------------------------------------------------
(* oseries: the power series of f in w, for w -> 0+, with every term of an *)
(* exponent below K kept exactly: a sum of monomials c * w^k, c free of w  *)
(* (log(w) counts as a coefficient, as in Basic.series).                   *)

\* how many further orders a cancelled leading term is searched for
MaxCancel == 3

WExp(t, w) == ExpIn(Factors(t), w)

Trunc(s, w, K) ==
    IF s[1] = "err" THEN s
    ELSE FromTerms({t \in Terms(s) : QLess(WExp(t, w), K)})

QMinSet(S) == CHOOSE m \in S : \A n \in S : ~QLess(n, m)

MinExp(s, w) == QMinSet({WExp(t, w) : t \in Terms(s)})

\* the sum of the terms of T, each divided by w^v
RECURSIVE StripSum(_, _, _)
StripSum(T, w, v) ==
    IF T = {} THEN Zero
    ELSE LET t == CHOOSE t \in T : TRUE
         IN  Add(Mul(t, Pow(w, QNeg(v))), StripSum(T \ {t}, w, v))

LeadCoef(s, w, v) == StripSum({t \in Terms(s) : WExp(t, w) = v}, w, v)

HigherTerms(s, w, v) == FromTerms({t \in Terms(s) : WExp(t, w) # v})

RECURSIVE SerSum(_, _, _), SerProd(_, _, _), LowerBound(_, _), LowerBoundSum(_, _), Valuation(_, _), ValSearch(_, _, _, _), PowerSum(_, _, _, _, _, _, _)

\* a lower bound of the lowest exponent of e, or an error
LowerBound(e, w) ==
    LET kind == IF ~has(e, w) THEN "const"
                ELSE IF e = w THEN "w"
                ELSE IF e[1] = "pow" /\ ~IsNum(e[3]) THEN "other"
                ELSE e[1]
    IN  CASE kind = "const" -> Zero
          [] kind = "w" -> One
          [] kind = "add" ->
                 LET B == {LowerBound(t, w) : t \in e[2]}
                     bad == {b \in B : b[1] = "err"}
                 IN  IF bad # {} THEN CHOOSE b \in bad : TRUE ELSE QMinSet(B)
          [] kind = "mul" -> LowerBoundSum(e[3], w)
          [] kind = "pow" ->
                 LET v == IF QSign(e[3]) >= 0 THEN LowerBound(e[2], w)
                          ELSE Valuation(e[2], w)
                 IN  IF v[1] = "err" THEN v ELSE QMul(e[3], v)
          [] OTHER -> Zero

LowerBoundSum(F, w) ==
    IF F = {} THEN Zero
    ELSE LET f == CHOOSE f \in F : TRUE
             a == LowerBound(f, w)
             b == LowerBoundSum(F \ {f}, w)
         IN  IF a[1] = "err" THEN a ELSE IF b[1] = "err" THEN b ELSE QAdd(a, b)

ValSearch(e, w, K, tries) ==
    LET s == Ser(e, w, K)
    IN  IF s[1] = "err" THEN s
        ELSE IF s # Zero THEN MinExp(s, w)
        ELSE IF tries = 0 THEN NotImplementedError
        ELSE ValSearch(e, w, QAdd(K, One), tries - 1)

\* the lowest exponent of e with a coefficient that does not cancel
Valuation(e, w) ==
    LET lb == LowerBound(e, w)
    IN  IF lb[1] = "err" THEN lb ELSE ValSearch(e, w, QAdd(lb, One), MaxCancel)

SerSum(T, w, K) ==
    IF T = {} THEN Zero
    ELSE LET t == CHOOSE t \in T : TRUE
         IN  Add(Ser(t, w, K), SerSum(T \ {t}, w, K))

SerProd(F, w, K) ==
    IF F = {} THEN IF QLess(Zero, K) THEN One ELSE Zero
    ELSE LET f    == CHOOSE f \in F : TRUE
             rest == F \ {f}
             lbf  == LowerBound(f, w)
             lbr  == LowerBoundSum(rest, w)
         IN  IF lbf[1] = "err" THEN lbf
             ELSE IF lbr[1] = "err" THEN lbr
             ELSE Trunc(Distribute(Ser(f, w, QAdd(K, QNeg(lbr))),
                                   SerProd(rest, w, QAdd(K, QNeg(lbf)))), w, K)

\* sum over k >= k0 of coef_k * phi^k, below order R; coef_k is the binomial
\* coefficient of n ("pow"), 1/k! ("exp") or (-1)^(k+1)/k ("log")
PowerSum(kind, n, phi, k, coef, phik, RW) ==
    IF phik[1] = "err" THEN phik
    ELSE IF phik = Zero \/ coef = Zero THEN Zero
    ELSE LET next == IF kind = "pow"
                     THEN QMul(coef, QMul(QAdd(n, Rational(-k, 1)),
                                          Rational(1, k + 1)))
                     ELSE IF kind = "exp" THEN QMul(coef, Rational(1, k + 1))
                     ELSE Rational(IF k % 2 = 0 THEN 1 ELSE -1, k + 1)
         IN  Add(Distribute(coef, phik),
                 PowerSum(kind, n, phi, k + 1, next,
                          Trunc(Distribute(phik, phi), RW[2], RW[1]), RW))

Ser_def(e, w, K) ==
    LET kind == IF e[1] = "err" THEN "err"
                ELSE IF ~has(e, w) THEN "const"
                ELSE IF e = w THEN "w"
                ELSE IF e[1] = "pow" /\ IsNum(e[3])
                     THEN IF e[2] = w THEN "monomial" ELSE "power"
                ELSE e[1]
    IN  CASE kind = "err" -> e
          [] kind = "const" -> IF QLess(Zero, K) THEN expand(e) ELSE Zero
          [] kind = "w" -> IF QLess(One, K) THEN w ELSE Zero
          [] kind = "add" -> SerSum(e[2], w, K)
          [] kind = "mul" -> Distribute(e[2], SerProd(e[3], w, K))
          [] kind = "monomial" -> IF QLess(e[3], K) THEN e ELSE Zero
          [] kind = "power" ->
                 LET n == e[3]
                     v == Valuation(e[2], w)
                 IN  IF v[1] = "err" THEN v
                     ELSE IF ~QLess(QMul(n, v), K) THEN Zero
                     ELSE LET R   == QAdd(K, QNeg(QMul(n, v)))
                              sb  == Ser(e[2], w, QAdd(v, R))
                              c0  == LeadCoef(sb, w, v)
                              inv == Mul(Pow(c0, MinusOne), Pow(w, QNeg(v)))
                              phi == Distribute(HigherTerms(sb, w, v), inv)
                              sum == PowerSum("pow", n, phi, 0, One,
                                              IF QLess(Zero, R) THEN One ELSE Zero,
                                              <<R, w>>)
                          IN  IF sb[1] = "err" THEN sb
                              ELSE Trunc(Distribute(Mul(expand(Pow(c0, n)),
                                                        Pow(w, QMul(n, v))), sum),
                                         w, K)
          [] kind = "exp" ->
                 LET sa == Ser(e[2], w, K)
                 IN  IF sa[1] = "err" THEN sa
                     ELSE IF sa # Zero /\ QLess(MinExp(sa, w), Zero)
                          THEN NotImplementedError
                     ELSE LET a0  == LeadCoef(sa, w, Zero)
                              phi == HigherTerms(sa, w, Zero)
                              sum == PowerSum("exp", Zero, phi, 0, One,
                                              IF QLess(Zero, K) THEN One ELSE Zero,
                                              <<K, w>>)
                          IN  Trunc(Distribute(exp(a0), sum), w, K)
          [] kind = "log" ->
                 LET v == Valuation(e[2], w)
                 IN  IF v[1] = "err" THEN v
                     ELSE IF ~QLess(Zero, K) THEN Zero
                     ELSE LET sa  == Ser(e[2], w, QAdd(v, K))
                              c0  == LeadCoef(sa, w, v)
                              inv == Mul(Pow(c0, MinusOne), Pow(w, QNeg(v)))
                              phi == Distribute(HigherTerms(sa, w, v), inv)
                              sum == PowerSum("log", Zero, phi, 1, One,
                                              Trunc(phi, w, K), <<K, w>>)
                          IN  IF sa[1] = "err" THEN sa
                              ELSE IF IsNum(c0) /\ QSign(c0) <= 0
                                   THEN AssertionError
                              ELSE Trunc(Add(Add(log(c0), Mul(v, log(w))), sum),
                                         w, K)
          [] OTHER -> NotImplementedError

oseries(f, w, K) == Ser(f, w, K)

----------------------------------------------------------------------------
(* limits2.py.  mrv returns <<"set", S>>, compare <<"str", c>>, rewrite    *)
(* <<"rw", f, logw>>, mrv_leadterm <<"lt", c0, e0>>, sign a Rational;      *)
(* each of them returns <<"err", kind>> when the code raises.              *)
(* An if/elif chain over the kind of a node is written as the first test   *)
(* of the chain that holds (kind, rule) and a CASE over it.                *)

SetOf(S) == <<"set", S>>

Str(c) == <<"str", c>>

\* a function that falls off its end returns None
None == <<"none", "None">>

RECURSIVE mrv_max(_, _, _)

\* Basic.inflimit: the limit of e for x -> oo
inflimit(e, x) == limitinf(e, x)

\* compare taking only +oo, not -oo, for ">"
compare_posinf(a, b, x) ==
    LET c == inflimit(Div(log(a), log(b)), x)
    IN  IF c[1] = "err" THEN c
        ELSE IF c = Zero THEN Str("<")
        ELSE IF c = oo THEN Str(">")
        ELSE Str("=")

compare_def(a, b, x) ==
    LET c == inflimit(Div(log(a), log(b)), x)
    IN  IF c[1] = "err" THEN c
        ELSE IF c = Zero THEN Str("<")
        ELSE IF c \in {oo, moo} THEN Str(">")
        ELSE Str("=")

\* mrv taking exp(a) into the set whatever the limit of a is
mrv_expalways(e, x) ==
    LET kind == IF e[1] = "err" THEN "err"
                ELSE IF ~has(e, x) THEN "const"
                ELSE IF e = x THEN "x"
                ELSE e[1]
    IN  CASE kind = "err" -> e
          [] kind = "const" -> SetOf({})
          [] kind = "x" -> SetOf({x})
          [] kind = "mul" ->
                 LET ab == as_two_terms(e)
                 IN  mrv_max(mrv(ab[1], x), mrv(ab[2], x), x)
          [] kind = "add" ->
                 LET ab == as_two_terms(e)
                 IN  mrv_max(mrv(ab[1], x), mrv(ab[2], x), x)
          [] kind = "pow" ->
                 IF has(e[3], x) THEN mrv(exp(Mul(e[3], log(e[2]))), x)
                 ELSE mrv(e[2], x)
          [] kind = "log" -> mrv(e[2], x)
          [] kind = "exp" ->
                 LET l == inflimit(e[2], x)
                 IN  IF l[1] = "err" THEN l
                     ELSE mrv_max(SetOf({e}), mrv(e[2], x), x)
          [] kind = "fn" ->
                 IF Len(e[3]) = 1 THEN mrv(e[3][1], x) ELSE NotImplementedError
          [] OTHER -> NotImplementedError

\* mrv keeping a log node beside the mrv set of its argument
mrv_logself(e, x) ==
    LET kind == IF e[1] = "err" THEN "err"
                ELSE IF ~has(e, x) THEN "const"
                ELSE IF e = x THEN "x"
                ELSE e[1]
    IN  CASE kind = "err" -> e
          [] kind = "const" -> SetOf({})
          [] kind = "x" -> SetOf({x})
          [] kind = "mul" ->
                 LET ab == as_two_terms(e)
                 IN  mrv_max(mrv(ab[1], x), mrv(ab[2], x), x)
          [] kind = "add" ->
                 LET ab == as_two_terms(e)
                 IN  mrv_max(mrv(ab[1], x), mrv(ab[2], x), x)
          [] kind = "pow" ->
                 IF has(e[3], x) THEN mrv(exp(Mul(e[3], log(e[2]))), x)
                 ELSE mrv(e[2], x)
          [] kind = "log" ->
                 LET m == mrv(e[2], x)
                 IN  IF m[1] = "err" THEN m ELSE SetOf({e} \cup m[2])
          [] kind = "exp" ->
                 LET l == inflimit(e[2], x)
                 IN  IF l[1] = "err" THEN l
                     ELSE IF l \in {oo, moo}
                          THEN mrv_max(SetOf({e}), mrv(e[2], x), x)
                     ELSE mrv(e[2], x)
          [] kind = "fn" ->
                 IF Len(e[3]) = 1 THEN mrv(e[3][1], x) ELSE NotImplementedError
          [] OTHER -> NotImplementedError

mrv_def(e, x) ==
    LET kind == IF e[1] = "err" THEN "err"
                ELSE IF ~has(e, x) THEN "const"
                ELSE IF e = x THEN "x"
                ELSE e[1]
    IN  CASE kind = "err" -> e
          [] kind = "const" -> SetOf({})
          [] kind = "x" -> SetOf({x})
          [] kind = "mul" ->
                 LET ab == as_two_terms(e)
                 IN  mrv_max(mrv(ab[1], x), mrv(ab[2], x), x)
          [] kind = "add" ->
                 LET ab == as_two_terms(e)
                 IN  mrv_max(mrv(ab[1], x), mrv(ab[2], x), x)
          [] kind = "pow" ->
                 IF has(e[3], x) THEN mrv(exp(Mul(e[3], log(e[2]))), x)
                 ELSE mrv(e[2], x)
          [] kind = "log" -> mrv(e[2], x)
          [] kind = "exp" ->
                 LET l == inflimit(e[2], x)
                 IN  IF l[1] = "err" THEN l
                     ELSE IF l \in {oo, moo}
                          THEN mrv_max(SetOf({e}), mrv(e[2], x), x)
                     ELSE mrv(e[2], x)
          [] kind = "fn" ->
                 IF Len(e[3]) = 1 THEN mrv(e[3][1], x) ELSE NotImplementedError
          [] OTHER -> NotImplementedError

\* mrv_max returning f alone, not the union, on "="
mrv_max_of_nounion(f, g, x, a, b) ==
    LET c    == compare(a, b, x)
        rule == IF f[1] = "err" THEN "errf"
                ELSE IF g[1] = "err" THEN "errg"
                ELSE IF f[2] = {} THEN "g"
                ELSE IF g[2] = {} THEN "f"
                ELSE IF f[2] \cap g[2] # {} THEN "union"
                ELSE IF x \in f[2] THEN "g"
                ELSE IF x \in g[2] THEN "f"
                ELSE "compare"
    IN  CASE rule \in {"errf", "f"} -> f
          [] rule \in {"errg", "g"} -> g
          [] rule = "union" -> SetOf(f[2] \cup g[2])
          [] rule = "compare" ->
                 IF c[1] = "err" THEN c
                 ELSE IF c = Str("<") THEN g
                 ELSE f

\* mrv_max with a standing for list(f)[0] and b for list(g)[0]
mrv_max_of_def(f, g, x, a, b) ==
    LET c    == compare(a, b, x)
        rule == IF f[1] = "err" THEN "errf"
                ELSE IF g[1] = "err" THEN "errg"
                ELSE IF f[2] = {} THEN "g"
                ELSE IF g[2] = {} THEN "f"
                ELSE IF f[2] \cap g[2] # {} THEN "union"
                ELSE IF x \in f[2] THEN "g"
                ELSE IF x \in g[2] THEN "f"
                ELSE "compare"
    IN  CASE rule \in {"errf", "f"} -> f
          [] rule \in {"errg", "g"} -> g
          [] rule = "union" -> SetOf(f[2] \cup g[2])
          [] rule = "compare" ->
                 IF c[1] = "err" THEN c
                 ELSE IF c = Str(">") THEN f
                 ELSE IF c = Str("<") THEN g
                 ELSE IF c # Str("=") THEN AssertionError
                 ELSE SetOf(f[2] \cup g[2])

\* list(S): the members of S in the iteration order of the run; order picks
\* one of the rotations of a list of S, reversed or not
ListOf(S) ==
    LET L == ArgSeq(S)
        n == Len(L)
        r == IF n = 0 THEN 0 ELSE order % n
        rot == [i \in 1..n |-> L[((i - 1 + r) % n) + 1]]
    IN  IF (order \div 3) % 2 = 1 THEN [i \in 1..n |-> rot[n + 1 - i]] ELSE rot

\* the first element of list(S)
First(S) == ListOf(S)[1]

mrv_max(f, g, x) ==
    IF f[1] = "err" THEN f
    ELSE IF g[1] = "err" THEN g
    ELSE IF f[2] = {} \/ g[2] = {} THEN mrv_max_of(f, g, x, x, x)
    ELSE mrv_max_of(f, g, x, First(f[2]), First(g[2]))

\* sign giving a Pow the sign of its base
sign_powbase(e, x) ==
    LET kind == IF e[1] = "err" THEN "err"
                ELSE IF IsNum(e) THEN "num"
                ELSE IF IsInf(e) THEN "inf"
                ELSE IF ~has(e, x) THEN "const"
                ELSE IF e = x THEN "x"
                ELSE e[1]
    IN  CASE kind = "err" -> e
          [] kind = "num" -> Rational(QSign(e), 1)
          [] kind = "inf" -> Rational(e[2], 1)
          [] kind = "const" ->
                 LET f == evalf(e)
                 IN  IF f[1] = "err" THEN f
                     ELSE IF f[2] > 0 THEN One ELSE MinusOne
          [] kind = "x" -> One
          [] kind = "mul" ->
                 LET ab == as_two_terms(e)
                     sa == sign(ab[1], x)
                     sb == sign(ab[2], x)
                 IN  IF sa[1] = "err" THEN sa
                     ELSE IF sb[1] = "err" THEN sb
                     ELSE QMul(sa, sb)
          [] kind = "exp" -> One
          [] kind = "pow" -> sign(e[2], x)
          [] kind = "log" -> sign(Sub(e[2], One), x)
          [] kind = "add" -> sign(inflimit(e, x), x)
          [] OTHER -> StringException

sign_def(e, x) ==
    LET kind == IF e[1] = "err" THEN "err"
                ELSE IF IsNum(e) THEN "num"
                ELSE IF IsInf(e) THEN "inf"
                ELSE IF ~has(e, x) THEN "const"
                ELSE IF e = x THEN "x"
                ELSE e[1]
    IN  CASE kind = "err" -> e
          [] kind = "num" -> Rational(QSign(e), 1)
          [] kind = "inf" -> Rational(e[2], 1)
          [] kind = "const" ->
                 LET f == evalf(e)
                 IN  IF f[1] = "err" THEN f
                     ELSE IF f[2] > 0 THEN One ELSE MinusOne
          [] kind = "x" -> One
          [] kind = "mul" ->
                 LET ab == as_two_terms(e)
                     sa == sign(ab[1], x)
                     sb == sign(ab[2], x)
                 IN  IF sa[1] = "err" THEN sa
                     ELSE IF sb[1] = "err" THEN sb
                     ELSE QMul(sa, sb)
          [] kind = "exp" -> One
          [] kind = "pow" ->
                 LET sb == sign(e[2], x)
                 IN  IF sb[1] = "err" THEN sb
                     ELSE IF sb = One THEN One
                     ELSE StringException
          [] kind = "log" -> sign(Sub(e[2], One), x)
          [] kind = "add" -> sign(inflimit(e, x), x)
          [] OTHER -> StringException

\* the items of L whose mrv set has n members (keep) or does not (~keep)
RECURSIVE PickByMrv(_, _, _, _)
PickByMrv(L, x, n, keep) ==
    IF L = <<>> THEN <<>>
    ELSE LET a == Head(L)
         IN  (IF (Cardinality(mrv(a, x)[2]) = n) = keep THEN <<a>> ELSE <<>>)
                 \o PickByMrv(Tail(L), x, n, keep)

\* L.sort(cmp=cmpfunc): by the length of the mrv set, longest first; the
\* sort is stable, items of one length stay in the order of L
RECURSIVE SortByMrv(_, _)
SortByMrv(L, x) ==
    IF L = <<>> THEN <<>>
    ELSE LET lens == {Cardinality(mrv(L[i], x)[2]) : i \in DOMAIN L}
             m == CHOOSE m \in lens : \A n \in lens : n <= m
         IN  PickByMrv(L, x, m, TRUE) \o SortByMrv(PickByMrv(L, x, m, FALSE), x)

\* the list of Omega sorted the other way round, shortest mrv set first
SortOmega_asc(S, x) ==
    IF Cardinality(S) <= 1 THEN ListOf(S)
    ELSE LET bad == {t \in S : IsErr(mrv(t, x))}
             L   == SortByMrv(ListOf(S), x)
         IN  IF bad # {} THEN <<mrv(CHOOSE t \in bad : TRUE, x)>>
             ELSE [i \in 1..Len(L) |-> L[Len(L) + 1 - i]]

\* Omega = list(Omega); Omega.sort(cmp=cmpfunc); a list of one item is sorted
\* without a call of cmpfunc
SortOmega_def(S, x) ==
    IF Cardinality(S) <= 1 THEN ListOf(S)
    \* a call of mrv that raises inside cmpfunc ends the sort: the list
    \* holds the error alone
    ELSE LET bad == {t \in S : IsErr(mrv(t, x))}
         IN  IF bad # {} THEN <<mrv(CHOOSE t \in bad : TRUE, x)>>
             ELSE SortByMrv(ListOf(S), x)

\* O2 without the exponential of the remainder f_arg - c*g_arg
RECURSIVE RewriteItems_noresid(_, _, _, _, _)
RewriteItems_noresid(Omega, i, g, x, wsym) ==
    IF i > Len(Omega) THEN <<>>
    ELSE LET f == Omega[i]
             c == mrv_leadterm(Div(f[2], g[2]), x, Omega_default)
         IN  IF c[1] = "err" THEN <<c>>
             ELSE IF c[3] # Zero THEN <<AssertionError>>
             ELSE <<Pow(wsym, c[2])>>
                  \o RewriteItems_noresid(Omega, i + 1, g, x, wsym)

\* O2: every item of Omega rewritten using w; the list ends at the item
\* whose construction raises
RECURSIVE RewriteItems(_, _, _, _, _)
RewriteItems(Omega, i, g, x, wsym) ==
    IF i > Len(Omega) THEN <<>>
    ELSE LET f    == Omega[i]
             c    == mrv_leadterm(Div(f[2], g[2]), x, Omega_default)
             cg   == Mul(c[2], g[2])
             diff == Sub(f[2], cg)
             rest == expand(diff)
         IN  IF c[1] = "err" THEN <<c>>
             ELSE IF c[3] # Zero THEN <<AssertionError>>
             ELSE IF cg[1] = "err" THEN <<cg>>
             ELSE IF diff[1] = "err" THEN <<diff>>
             ELSE IF rest[1] = "err" THEN <<rest>>
             ELSE <<Mul(exp(rest), Pow(wsym, c[2]))>>
                  \o RewriteItems(Omega, i + 1, g, x, wsym)

\* for a, b in zip(Omega, O2): f = f.subs(a, b)
RECURSIVE SubsAll(_, _, _, _)
SubsAll(f, Omega, O2, i) ==
    IF i > Len(O2) THEN f
    ELSE IF IsErr(O2[i]) THEN O2[i]
    ELSE SubsAll(subs(f, Omega[i], O2[i]), Omega, O2, i + 1)

\* rewrite returning log(w) = g_arg also when w is 1/g
rewrite_lognoflip(e, Omega, x, wsym) ==
    IF Omega = {} THEN AssertionError
    ELSE IF \E t \in Omega : t[1] # "exp" THEN AssertionError
    ELSE LET sorted == SortOmega(Omega, x)
             g      == sorted[Len(sorted)]
             sg     == sign(g[2], x)
             sig    == sg = One
             w      == IF sig THEN Pow(wsym, MinusOne) ELSE wsym
             O2     == RewriteItems(sorted, 1, g, x, w)
             f      == SubsAll(e, sorted, O2, 1)
             logw   == g[2]
         IN  IF g[1] = "err" THEN g
             ELSE IF sg[1] = "err" THEN sg
             ELSE IF f[1] = "err" THEN f
             ELSE <<"rw", f, logw>>

rewrite_def(e, Omega, x, wsym) ==
    IF Omega = {} THEN AssertionError
    ELSE IF \E t \in Omega : t[1] # "exp" THEN AssertionError
    ELSE LET sorted == SortOmega(Omega, x)
             g      == sorted[Len(sorted)]
             sg     == sign(g[2], x)
             sig    == sg = One
             w      == IF sig THEN Pow(wsym, MinusOne) ELSE wsym
             O2     == RewriteItems(sorted, 1, g, x, w)
             f      == SubsAll(e, sorted, O2, 1)
             logw   == IF sig THEN Neg(g[2]) ELSE g[2]
         IN  IF g[1] = "err" THEN g
             ELSE IF sg[1] = "err" THEN sg
             ELSE IF f[1] = "err" THEN f
             ELSE <<"rw", f, logw>>

\* limitinf with the assertion sign(c0) != 0 left out
limitinf_noassert(e, x) ==
    IF e[1] = "err" THEN e
    ELSE IF ~has(e, x) THEN e
    ELSE LET lt == mrv_leadterm(e, x, Omega_default)
         IN  IF lt[1] = "err" THEN lt
             ELSE LET sig == sign(lt[3], x)
                  IN  IF sig[1] = "err" THEN sig
                      ELSE IF sig = One THEN Zero
                      ELSE IF sig = MinusOne
                           THEN LET s == sign(lt[2], x)
                                IN  IF s[1] = "err" THEN s ELSE Mul(s, oo)
                      ELSE IF sig = Zero
                           THEN IF lt[2] = e THEN RecursionError
                                ELSE limitinf(lt[2], x)
                      ELSE None

limitinf_def(e, x) ==
    IF e[1] = "err" THEN e
    ELSE IF ~has(e, x) THEN e
    ELSE LET lt == mrv_leadterm(e, x, Omega_default)
         IN  IF lt[1] = "err" THEN lt
             ELSE LET sig == sign(lt[3], x)
                  IN  IF sig[1] = "err" THEN sig
                      ELSE IF sig = One THEN Zero
                      ELSE IF sig = MinusOne
                           THEN LET s == sign(lt[2], x)
                                IN  IF s[1] = "err" THEN s
                                    ELSE IF s = Zero THEN AssertionError
                                    ELSE Mul(s, oo)
                      ELSE IF sig = Zero
                           THEN IF lt[2] = e THEN RecursionError
                                ELSE limitinf(lt[2], x)
                      ELSE None

moveup(l, x) == {subs(e, x, exp(x)) : e \in l}

movedown(lt, x) ==
    IF lt[1] = "err" THEN lt
    ELSE LT(subs(lt[2], x, log(x)), subs(lt[3], x, log(x)))

\* moveup on a list: [e.subs(x, exp(x)) for e in l]
MoveupList_def(l, x) == [i \in DOMAIN l |-> subs(l[i], x, exp(x))]

\* movedown on a list: [e.subs(x, log(x)) for e in l]
MovedownList_def(l, x) == [i \in DOMAIN l |-> subs(l[i], x, log(x))]

subexp(e, sub) == subs(e, sub, Dummy("x", dummycount + 4)) # e

\* mrv_leadterm returning the lifted pair as it is
mrv_leadterm_nodown(e, x, Omega0) ==
    IF e[1] = "err" THEN e
    ELSE IF ~has(e, x) THEN LT(e, Zero)
    ELSE LET kept  == {t \in Omega0 : subexp(e, t)}
             Om    == IF kept = {} THEN mrv(e, x) ELSE SetOf(kept)
         IN  IF Om[1] = "err" THEN Om
             ELSE IF x \in Om[2]
                  THEN mrv_leadterm(subs(e, x, exp(x)), x, moveup(Om[2], x))
             ELSE LET wsym == Dummy("w", dummycount + 2)
                      rw   == rewrite(e, Om[2], x, wsym)
                  IN  IF rw[1] = "err" THEN rw
                      ELSE LET series == oseries(expand(rw[2]), wsym,
                                                 Rational(2, 1))
                           IN  IF series[1] = "err" THEN series
                               ELSE IF series = Zero THEN AssertionError
                               ELSE leadterm(subs(series, log(wsym), rw[3]),
                                             wsym)

mrv_leadterm_def(e, x, Omega0) ==
    IF e[1] = "err" THEN e
    ELSE IF ~has(e, x) THEN LT(e, Zero)
    ELSE LET kept  == {t \in Omega0 : subexp(e, t)}
             Om    == IF kept = {} THEN mrv(e, x) ELSE SetOf(kept)
         IN  IF Om[1] = "err" THEN Om
             ELSE IF x \in Om[2]
                  THEN movedown(mrv_leadterm(subs(e, x, exp(x)), x,
                                             moveup(Om[2], x)), x)
             ELSE LET wsym == Dummy("w", dummycount + 2)
                      rw   == rewrite(e, Om[2], x, wsym)
                  IN  IF rw[1] = "err" THEN rw
                      ELSE LET series == oseries(expand(rw[2]), wsym,
                                                 Rational(2, 1))
                           IN  IF series[1] = "err" THEN series
                               ELSE IF series = Zero THEN AssertionError
                               ELSE leadterm(subs(series, log(wsym), rw[3]),
                                             wsym)

\* Basic.sympify: a Python int n (<<"int", n>>) becomes Rational(n), a Basic
\* stays as it is
sympify(a) == IF a[1] = "int" THEN Rational(a[2], 1) ELSE a

\* doit with the direction "-"
doit_minus(n) == limit(n[2], n[3], n[4], "-")

\* Limit2.doit: limit(self.e, self.x, self.x0), dir left at its default "+"
doit(n) == limit(n[2], n[3], n[4], "+")

\* limit with the substitution z -> -z at -oo left out
limit_nosubs(e, z, z0, dir) ==
    IF ~IsSymbol(z) THEN NotImplementedError
    ELSE IF z0 \in {oo, moo} THEN limitinf(e, z)
    ELSE LET x == Dummy("x", dummycount + 1)
         IN  IF dir = "-" THEN limitinf(subs(e, z, Sub(z0, Div(One, x))), x)
             ELSE IF dir = "+" THEN limitinf(subs(e, z, Add(z0, Div(One, x))), x)
             ELSE NotImplementedError

\* limit with the user symbol x in place of the dummy
limit_userx(e, z, z0, dir) ==
    IF ~IsSymbol(z) THEN NotImplementedError
    ELSE IF z0 = oo THEN limitinf(e, z)
    ELSE IF z0 = moo THEN limitinf(subs(e, z, Neg(z)), z)
    ELSE LET x == Symbol("x")
         IN  IF dir = "-" THEN limitinf(subs(e, z, Sub(z0, Div(One, x))), x)
             ELSE IF dir = "+" THEN limitinf(subs(e, z, Add(z0, Div(One, x))), x)
             ELSE NotImplementedError

\* limit taking every dir other than "-" for "+"
limit_anydir(e, z, z0, dir) ==
    IF ~IsSymbol(z) THEN NotImplementedError
    ELSE IF z0 = oo THEN limitinf(e, z)
    ELSE IF z0 = moo THEN limitinf(subs(e, z, Neg(z)), z)
    ELSE LET x == Dummy("x", dummycount + 1)
         IN  IF dir = "-" THEN limitinf(subs(e, z, Sub(z0, Div(One, x))), x)
             ELSE limitinf(subs(e, z, Add(z0, Div(One, x))), x)

limit_def(e, z, z0, dir) ==
    IF ~IsSymbol(z) THEN NotImplementedError
    ELSE IF z0 = oo THEN limitinf(e, z)
    ELSE IF z0 = moo THEN limitinf(subs(e, z, Neg(z)), z)
    ELSE LET x == Dummy("x", dummycount + 1)
         IN  IF dir = "-" THEN limitinf(subs(e, z, Sub(z0, Div(One, x))), x)
             ELSE IF dir = "+" THEN limitinf(subs(e, z, Add(z0, Div(One, x))), x)
             ELSE NotImplementedError

\* one frame of limitinf(e, x): <<"return", v>>, or <<"call", c0>> for the
\* frame limitinf(c0, x) it opens (and whose result it returns)
limitinf_frame_def(e, x) ==
    IF e[1] = "err" THEN <<"return", e>>
    ELSE IF ~has(e, x) THEN <<"return", e>>
    ELSE LET lt == mrv_leadterm(e, x, Omega_default)
         IN  IF lt[1] = "err" THEN <<"return", lt>>
             ELSE LET sig == sign(lt[3], x)
                  IN  IF sig[1] = "err" THEN <<"return", sig>>
                      ELSE IF sig = One THEN <<"return", Zero>>
                      ELSE IF sig = MinusOne
                           THEN LET s == sign(lt[2], x)
                                IN  IF s[1] = "err" THEN <<"return", s>>
                                    ELSE IF s = Zero
                                         THEN <<"return", AssertionError>>
                                    ELSE <<"return", Mul(s, oo)>>
                      ELSE IF sig = Zero THEN <<"call", lt[2]>>
                      ELSE <<"return", None>>

\* the frame of limitinf that limit(e, z, z0, dir) opens: (e', x)
limit_frame_def(e, z, z0, dir) ==
    IF z0 = oo THEN <<e, z>>
    ELSE IF z0 = moo THEN <<subs(e, z, Neg(z)), z>>
    ELSE LET x == Dummy("x", dummycount + 1)
         IN  IF dir = "-" THEN <<subs(e, z, Sub(z0, Div(One, x))), x>>
             ELSE <<subs(e, z, Add(z0, Div(One, x))), x>>

\* the recursion limit of the interpreter
MaxDepth == 4

\* the frames limitinf(e, x) opens, the n-th of the stack first: one
\* (e, x, outcome) for each
Chain_def(e, x, n) ==
    LET r == limitinf_frame(e, x)
    IN  <<<<e, x, r>>>> \o (IF r[1] = "call" /\ n < MaxDepth
                            THEN Chain(r[2], x, n + 1)
                            ELSE <<>>)

\* the frames of limitinf that limit(e, z, z0, dir) opens
limit_chain_def(e, z, z0, dir) ==
    LET first == limit_frame(e, z, z0, dir)
    IN  Chain(first[1], first[2], 1)

Call(c) ==
    CASE c[1] = "Add" -> Add_def(c[2], c[3])
      [] c[1] = "Mul" -> Mul_def(c[2], c[3])
      [] c[1] = "Pow" -> Pow_def(c[2], c[3])
      [] c[1] = "exp" -> exp_def(c[2])
      [] c[1] = "log" -> log_def(c[2])
      [] c[1] = "subs" -> subs_def(c[2], c[3], c[4])
      [] c[1] = "Distribute" -> Distribute_def(c[2], c[3])
      [] c[1] = "expand" -> expand_def(c[2])
      [] c[1] = "evalf" -> evalf_def(c[2])
      [] c[1] = "leadterm" -> leadterm_def(c[2], c[3])
      [] c[1] = "Ser" -> Ser_def(c[2], c[3], c[4])
      [] c[1] = "compare" -> compare_def(c[2], c[3], c[4])
      [] c[1] = "mrv" -> mrv_def(c[2], c[3])
      [] c[1] = "mrv_max_of" -> mrv_max_of_def(c[2], c[3], c[4], c[5], c[6])
      [] c[1] = "sign" -> sign_def(c[2], c[3])
      [] c[1] = "rewrite" -> rewrite_def(c[2], c[3], c[4], c[5])
      [] c[1] = "limitinf" -> limitinf_def(c[2], c[3])
      [] c[1] = "mrv_leadterm" -> mrv_leadterm_def(c[2], c[3], c[4])
      [] c[1] = "limit" -> limit_def(c[2], c[3], c[4], c[5])
      [] c[1] = "limitinf_frame" -> limitinf_frame_def(c[2], c[3])
      [] c[1] = "limit_frame" -> limit_frame_def(c[2], c[3], c[4], c[5])
      [] c[1] = "Chain" -> Chain_def(c[2], c[3], c[4])
      [] c[1] = "limit_chain" -> limit_chain_def(c[2], c[3], c[4], c[5])
      [] c[1] = "SortOmega" -> SortOmega_def(c[2], c[3])
      [] c[1] = "MoveupList" -> MoveupList_def(c[2], c[3])
      [] c[1] = "MovedownList" -> MovedownList_def(c[2], c[3])

----------------------------------------------------------------------------

(* The callers.  A call of an entry point of limits2.py takes the program  *)
(* from "idle" to "done" with the arguments in call and the outcome in     *)
(* res; the caller then drops the outcome.  Every call draws its dummy     *)
(* symbols from the global counter dummycount.                             *)

\* the cap of the dummy-symbol counter
MaxDummy == 8

\* the serial numbers one call draws: limit's x, mrv_leadterm's w,
\* leadterm's l and subexp's x
DummiesPerCall == 4

symx == Symbol("x")

symz == Symbol("z")

syma == Symbol("a")

symdummy == Symbol("dummy")

Two == Rational(2, 1)

\* dummy symbols named x that earlier calls have made
OldDummies == {Dummy("x", k) : k \in 1..dummycount}

\* The arguments of the calls are canonical nodes, written as the
\* constructors build them: 1/v is <<"pow", v, -1>>, -v is <<"mul", -1, {v}>>,
\* a product without a numeric coefficient is <<"mul", 1, F>>.

\* exp(2*log(log(v))) = log(v)^2 written as an exponential
ExpLogLog(v) == <<"exp", <<"mul", Two, {<<"log", <<"log", v>>>>}>>>>

\* expressions in v the engine is called on: v, v^2, 1/v, exp(v), exp(-v),
\* log(v), exp(v) + v, exp(v)/v, (v + 1)/(v - 1), v + v^2, exp(1/v), 2, a, a*v
Basics(v) ==
    { v, <<"pow", v, Two>>, <<"pow", v, MinusOne>>, <<"exp", v>>,
      <<"exp", <<"mul", MinusOne, {v}>>>>, <<"log", v>>,
      <<"add", {<<"exp", v>>, v}>>,
      <<"mul", One, {<<"exp", v>>, <<"pow", v, MinusOne>>}>>,
      <<"mul", One, {<<"add", {v, One}>>,
                     <<"pow", <<"add", {v, MinusOne}>>, MinusOne>>}>>,
      <<"add", {v, <<"pow", v, Two>>}>>, <<"exp", <<"pow", v, MinusOne>>>>,
      Two, syma, <<"mul", One, {syma, v}>> }

\* v^v, sin(v), f(v, a), f(a, a), Limit2(v*a, a, 0), exp(exp(v)),
\* v + exp(2*log(log(v))), exp(v + 1/v) - exp(v), exp(v) + exp(2*v)
Others(v) ==
    { <<"pow", v, v>>, <<"fn", "sin", <<v>>>>, <<"fn", "f", <<v, syma>>>>,
      <<"fn", "f", <<syma, syma>>>>,
      <<"Limit2", <<"mul", One, {v, syma}>>, syma, Zero>>,
      <<"exp", <<"exp", v>>>>, <<"add", {v, ExpLogLog(v)}>>,
      <<"add", {<<"exp", <<"add", {v, <<"pow", v, MinusOne>>}>>>>,
                <<"mul", MinusOne, {<<"exp", v>>}>>}>>,
      <<"add", {<<"exp", v>>, <<"exp", <<"mul", Two, {v}>>>>}>> }

Variables == {symx, symdummy}

\* z, 1/z, exp(z), exp(-z), log(z), (z + 1)/(z - 1), x*z, exp(1/z), sin(z),
\* and d*z for a dummy d of an earlier call
LimitExprs ==
    { symz, <<"pow", symz, MinusOne>>, <<"exp", symz>>,
      <<"exp", <<"mul", MinusOne, {symz}>>>>, <<"log", symz>>,
      <<"mul", One, {<<"add", {symz, One}>>,
                     <<"pow", <<"add", {symz, MinusOne}>>, MinusOne>>}>>,
      <<"mul", One, {symx, symz}>>, <<"exp", <<"pow", symz, MinusOne>>>>,
      <<"fn", "sin", <<symz>>>> }
    \cup {<<"mul", One, {d, symz}>> : d \in OldDummies}

\* the second argument of limit: two symbols, 2 and z + 1
LimitVars == {symz, symx, Two, <<"add", {symz, One}>>}

LimitPoints == {oo, moo, Zero, One}

Dirs == {"+", "-", "0"}

\* v, v^2, exp(v), exp(-v), log(v), 1 + 1/v, v*exp(v), exp(v^2), -v,
\* exp(2*log(log(v))), -1, 2
CompareArgs(v) ==
    { v, <<"pow", v, Two>>, <<"exp", v>>, <<"exp", <<"mul", MinusOne, {v}>>>>,
      <<"log", v>>, <<"add", {One, <<"pow", v, MinusOne>>}>>,
      <<"mul", One, {v, <<"exp", v>>}>>, <<"exp", <<"pow", v, Two>>>>,
      <<"mul", MinusOne, {v}>>, ExpLogLog(v), MinusOne, Two }

MrvSets(v) ==
    { {}, {v}, {<<"exp", v>>}, {<<"exp", <<"mul", MinusOne, {v}>>>>},
      {<<"exp", v>>, <<"exp", <<"mul", Two, {v}>>>>},
      {<<"exp", v>>, <<"exp", <<"pow", v, Two>>>>},
      {<<"exp", <<"pow", v, Two>>>>}, {ExpLogLog(v)} }

\* the first argument of rewrite: exp(v), exp(-v), exp(v)/v, exp(v) + exp(2*v),
\* exp(v^2), v + exp(2*log(log(v))), exp(1/v)
RewriteExprs(v) ==
    { <<"exp", v>>, <<"exp", <<"mul", MinusOne, {v}>>>>,
      <<"mul", One, {<<"exp", v>>, <<"pow", v, MinusOne>>}>>,
      <<"add", {<<"exp", v>>, <<"exp", <<"mul", Two, {v}>>>>}>>,
      <<"exp", <<"pow", v, Two>>>>, <<"add", {v, ExpLogLog(v)}>>,
      <<"exp", <<"pow", v, MinusOne>>>> }

\* sets rewrite is called on that mrv does not return: exp(1/v) alone
OtherSets(v) == { {<<"exp", <<"pow", v, MinusOne>>>>} }

\* the first argument of sign: -1, 0, 2, oo, -oo; the constants log(2),
\* log(1/2), log(2) + log(1/2) and a; v, -v, v^2, 1/v, exp(v), exp(-v),
\* log(v), v*exp(v), v - 1, 1/v + 1/v^2, a*v; the powers (-v)^(1/2), v^a,
\* 1/(v - 1), 1/(1 - v), (1/v - v)^2; sin(v) and Limit2(v, a, 0)
SignArgs(v) ==
    { MinusOne, Zero, Two, oo, moo,
      <<"log", Two>>, <<"log", <<"num", 1, 2>>>>,
      <<"add", {<<"log", <<"num", 1, 2>>>>, <<"log", Two>>}>>, syma,
      v, <<"mul", MinusOne, {v}>>, <<"pow", v, Two>>, <<"pow", v, MinusOne>>,
      <<"exp", v>>, <<"exp", <<"mul", MinusOne, {v}>>>>, <<"log", v>>,
      <<"mul", One, {v, <<"exp", v>>}>>, <<"add", {MinusOne, v}>>,
      <<"add", {<<"pow", v, <<"num", -2, 1>>>>, <<"pow", v, MinusOne>>}>>,
      <<"mul", One, {syma, v}>>,
      <<"pow", <<"mul", MinusOne, {v}>>, <<"num", 1, 2>>>>,
      <<"pow", v, syma>>,
      <<"pow", <<"add", {MinusOne, v}>>, MinusOne>>,
      <<"pow", <<"add", {One, <<"mul", MinusOne, {v}>>}>>, MinusOne>>,
      <<"pow", <<"add", {<<"mul", MinusOne, {v}>>, <<"pow", v, MinusOne>>}>>,
        Two>>,
      <<"fn", "sin", <<v>>>>, <<"Limit2", v, syma, Zero>> }

\* v*log(v), v + log(v), log(v)/v
LogExprs(v) ==
    { <<"mul", One, {<<"log", v>>, v}>>, <<"add", {<<"log", v>>, v}>>,
      <<"mul", One, {<<"log", v>>, <<"pow", v, MinusOne>>}>> }

\* The nodes of the hash machine, by identity: two objects with the same
\* content are two nodes.  cls is the class whose hash() the node runs,
\* tag is str(type(self)), args the children hash() adds.
Heap ==
    << [cls |-> "Symbol",     tag |-> "Symbol", name |-> "x", args |-> <<>>],
       [cls |-> "Function",   tag |-> "exp",    name |-> "",  args |-> <<1>>],
       [cls |-> "Function",   tag |-> "exp",    name |-> "",  args |-> <<1>>],
       [cls |-> "Derivative", tag |-> "Derivative", name |-> "", args |-> <<2, 1>>],
       [cls |-> "Basic",      tag |-> "Limit2", name |-> "",  args |-> <<>>],
       [cls |-> "Symbol",     tag |-> "Symbol", name |-> "y", args |-> <<>>] >>

NodeIds == DOMAIN Heap

NThreads == 2
Threads == 1..NThreads

\* self.mhash = 0
NoHash == 0
\* the mhash object thread t makes for node n (a thread makes at most one
\* per node: after its assignment the attribute is never 0 again)
Ref(n, t) == (n - 1) * NThreads + t
Refs == 1..(Len(Heap) * NThreads)

\* hashing.mhash: the value is the record of what was added, in order
NewValue == ""
addstr(v, str) == v \o str \o ";"
addint(v, h) == v \o "<" \o h \o ">"
\* what a hash() that runs off its end returns
PyNone == "None"

NoRet == "-"
NoOp == <<>>

Init ==
    /\ mhash = [n \in NodeIds |-> NoHash]
    /\ objs = [r \in Refs |-> NewValue]
    /\ frames = [t \in Threads |-> <<>>]
    /\ ret = [t \in Threads |-> NoRet]
    /\ running = [t \in Threads |-> NoOp]
    /\ done = [t \in Threads |-> NoOp]
    /\ returned = [n \in NodeIds |-> {}]
    /\ pc = "idle"
    /\ call = <<>>
    /\ res = <<>>
    /\ dummycount = 0
    /\ node = None
    /\ order = 0
    /\ Omega_default = {}
    /\ stack = <<>>
    /\ chain = <<>>

Enter ==
    /\ pc = "idle"
    /\ dummycount + DummiesPerCall <= MaxDummy
    /\ pc' = "done"
    /\ dummycount' = dummycount + DummiesPerCall
    /\ UNCHANGED <<node, order, Omega_default, stack, chain, hvars>>

DoLimit(e, z, z0, dir) ==
    /\ Enter
    /\ call' = <<"limit", e, z, z0, dir>>
    /\ res' = limit(e, z, z0, dir)

DoLimitinf(e, x) ==
    /\ Enter
    /\ call' = <<"limitinf", e, x>>
    /\ res' = limitinf(e, x)

DoCompare(a, b, x) ==
    /\ Enter
    /\ call' = <<"compare", a, b, x>>
    /\ res' = compare(a, b, x)

DoMrv(e, x) ==
    /\ Enter
    /\ call' = <<"mrv", e, x>>
    /\ res' = mrv(e, x)

\* a stands for list(f)[0] and b for list(g)[0]: any member, in the order
\* the hashes of the run give
DoMrvMax(f, g, x, a, b) ==
    /\ Enter
    /\ call' = <<"mrv_max", f, g, x, a, b>>
    /\ res' = mrv_max_of(SetOf(f), SetOf(g), x, a, b)

\* wsym is the dummy w that mrv_leadterm makes for the call
DoRewrite(e, Omega, x) ==
    /\ Enter
    /\ call' = <<"rewrite", e, Omega, x, Dummy("w", dummycount + 2)>>
    /\ res' = rewrite(e, Omega, x, Dummy("w", dummycount + 2))

DoSign(e, x) ==
    /\ Enter
    /\ call' = <<"sign", e, x>>
    /\ res' = sign(e, x)

\* mrv_leadterm(e, x), Omega left at its default
DoMrvLeadterm(e, x) ==
    /\ Enter
    /\ call' = <<"mrv_leadterm", e, x>>
    /\ res' = mrv_leadterm(e, x, Omega_default)

Return ==
    /\ pc = "done"
    /\ pc' = "idle"
    /\ call' = <<>>
    /\ res' = <<>>
    /\ chain' = <<>>
    /\ UNCHANGED <<dummycount, node, order, Omega_default, stack, hvars>>

Next ==
    \/ \E e \in LimitExprs, z \in LimitVars, z0 \in LimitPoints, dir \in Dirs :
           DoLimit(e, z, z0, dir)
    \/ \E x \in Variables : \E e \in Basics(x) \cup Others(x) :
           DoLimitinf(e, x)
    \/ \E x \in Variables : \E a, b \in CompareArgs(x) : DoCompare(a, b, x)
    \/ \E x \in Variables : \E e \in Basics(x) \cup Others(x) : DoMrv(e, x)
    \/ \E f, g \in MrvSets(symx) :
           \E a \in f \cup {symx}, b \in g \cup {symx} :
               /\ a \in f \/ f = {}
               /\ b \in g \/ g = {}
               /\ DoMrvMax(f, g, symx, a, b)
    \/ Return

Spec == Init /\ [][Next]_vars

\* the calls of rewrite, sign and mrv_leadterm
NextInner ==
    \/ \E e \in RewriteExprs(symx), Omega \in MrvSets(symx) \cup OtherSets(symx) :
           DoRewrite(e, Omega, symx)
    \/ \E e \in SignArgs(symx) : DoSign(e, symx)
    \/ \E e \in Basics(symx) \cup Others(symx) \cup LogExprs(symx) :
           DoMrvLeadterm(e, symx)
    \/ Return

SpecInner == Init /\ [][NextInner]_vars

----------------------------------------------------------------------------
(* The life of one Limit2 node: node is the object, None before it is      *)
(* constructed.                                                            *)

\* z, 1/z, exp(z), log(z), (z + 1)/(z - 1), exp(1/z), sin(z), the int 2
Limit2Exprs ==
    { symz, <<"pow", symz, MinusOne>>, <<"exp", symz>>, <<"log", symz>>,
      <<"mul", One, {<<"add", {symz, One}>>,
                     <<"pow", <<"add", {symz, MinusOne}>>, MinusOne>>}>>,
      <<"exp", <<"pow", symz, MinusOne>>>>, <<"fn", "sin", <<symz>>>>,
      <<"int", 2>> }

Limit2Points == {oo, moo, Zero, <<"int", 0>>, <<"int", 1>>}

\* Limit2(e, x, x0)
NewLimit2(e, x, x0) ==
    /\ pc = "idle"
    /\ node = None
    /\ node' = Limit2(sympify(e), sympify(x), sympify(x0))
    /\ UNCHANGED <<pc, call, res, dummycount, order, Omega_default, stack,
                   chain, hvars>>

\* node.doit()
DoDoit ==
    /\ node # None
    /\ Enter
    /\ call' = <<"doit", node>>
    /\ res' = doit(node)

NextLimit2 ==
    \/ \E e \in Limit2Exprs, x \in {symz, symx, Two}, x0 \in Limit2Points :
           NewLimit2(e, x, x0)
    \/ DoDoit
    \/ Return

SpecLimit2 == Init /\ [][NextLimit2]_vars

----------------------------------------------------------------------------
(* limit calls of a run in which the iteration order of the sets changes   *)
(* between the calls.                                                      *)

MaxOrder == 6

\* exp(z) + exp(2z), exp(z) + exp(-z), exp(z) + exp(-z) + exp(2z),
\* (exp(z) + exp(2z))*exp(-3z),
\* exp(z + 1/z) + exp(z) + exp(z^2), exp(1/z)*(exp(2/z) + exp(1/z)),
\* exp(-z)*(exp(-z) + exp(-2z)), z, and d*z for a dummy d of an earlier call
OrderExprs ==
    { <<"add", {<<"exp", symz>>, <<"exp", <<"mul", Two, {symz}>>>>}>>,
      <<"add", {<<"exp", symz>>, <<"exp", <<"mul", MinusOne, {symz}>>>>}>>,
      <<"add", {<<"exp", symz>>, <<"exp", <<"mul", MinusOne, {symz}>>>>,
                <<"exp", <<"mul", Two, {symz}>>>>}>>,
      <<"mul", One, {<<"exp", <<"mul", <<"num", -3, 1>>, {symz}>>>>,
                     <<"add", {<<"exp", symz>>,
                               <<"exp", <<"mul", Two, {symz}>>>>}>>}>>,
      <<"add", {<<"exp", <<"add", {symz, <<"pow", symz, MinusOne>>}>>>>,
                <<"exp", symz>>, <<"exp", <<"pow", symz, Two>>>>}>>,
      <<"mul", One,
        {<<"exp", <<"pow", symz, MinusOne>>>>,
         <<"add", {<<"exp", <<"mul", Two, {<<"pow", symz, MinusOne>>}>>>>,
                   <<"exp", <<"pow", symz, MinusOne>>>>}>>}>>,
      <<"mul", One,
        {<<"exp", <<"mul", MinusOne, {symz}>>>>,
         <<"add", {<<"exp", <<"mul", MinusOne, {symz}>>>>,
                   <<"exp", <<"mul", <<"num", -2, 1>>, {symz}>>>>}>>}>>,
      symz }
    \cup {<<"mul", One, {d, symz}>> : d \in OldDummies}

\* the hashes of the run give the sets another iteration order
ChangeOrder(k) ==
    /\ k # order
    /\ order' = k
    /\ UNCHANGED <<pc, call, res, dummycount, node, Omega_default, stack,
                   chain, hvars>>

NextOrder ==
    \/ \E e \in OrderExprs, z0 \in {oo, moo, Zero}, dir \in {"+", "-"} :
           DoLimit(e, symz, z0, dir)
    \/ \E k \in 0..(MaxOrder - 1) : ChangeOrder(k)
    \/ Return

SpecOrder == Init /\ [][NextOrder]_vars

----------------------------------------------------------------------------
(* A limit call frame by frame: stack holds the (e, x) of the limitinf     *)
(* frames that are open, the last one running.  What the frames of a call  *)
(* do is a function of its arguments; chain holds it from the call on, one *)
(* (e, x, outcome) for each frame the call is going to open.               *)

\* z^z, exp(exp(z)) and the expressions of Basics and LogExprs
RecExprs ==
    Basics(symz) \cup LogExprs(symz)
        \cup {<<"pow", symz, symz>>, <<"exp", <<"exp", symz>>>>}

\* limit(e, z, z0, dir) up to its call of limitinf
CallLimit(e, z, z0, dir) ==
    /\ pc = "idle"
    /\ dummycount + DummiesPerCall <= MaxDummy
    /\ dummycount' = dummycount + DummiesPerCall
    /\ call' = <<"limit", e, z, z0, dir>>
    /\ IF IsSymbol(z) /\ (z0 \in {oo, moo} \/ dir \in {"+", "-"})
       THEN /\ pc' = "running"
            /\ res' = <<>>
            /\ chain' = limit_chain(e, z, z0, dir)
            /\ stack' = <<<<chain'[1][1], chain'[1][2]>>>>
       ELSE /\ pc' = "done"
            /\ res' = NotImplementedError
            /\ stack' = <<>>
            /\ chain' = <<>>
    /\ UNCHANGED <<node, order, Omega_default, hvars>>

\* the running frame of limitinf returns, and every frame under it returns
\* that value, or it calls limitinf(c0, x); the interpreter raises
\* RuntimeError when the stack is full
StepLimitinf ==
    /\ pc = "running"
    /\ LET n == Len(stack)
           r == chain[n][3]
       IN  IF r[1] = "return"
           THEN pc' = "done" /\ res' = r[2] /\ stack' = <<>>
           ELSE IF n >= MaxDepth
                THEN pc' = "done" /\ res' = RecursionError /\ stack' = <<>>
                ELSE /\ stack' = Append(stack, <<r[2], chain[n][2]>>)
                     /\ UNCHANGED <<pc, res>>
    /\ UNCHANGED <<call, dummycount, node, order, Omega_default, chain, hvars>>

NextRec ==
    \/ \E e \in RecExprs, z \in {symz, Two}, z0 \in {oo, moo, Zero},
          dir \in Dirs : CallLimit(e, z, z0, dir)
    \/ StepLimitinf
    \/ Return

SpecRec == Init /\ [][NextRec]_vars /\ WF_vars(StepLimitinf)

----------------------------------------------------------------------------
(* The hash cache.  hash() is run a line at a time by each thread: a frame *)
(* is [n, pc, k, m] with n the node, pc the line the frame is at, k the    *)
(* child being added and m the mhash object whose addint was looked up     *)
(* before the child's hash() was called.  ret[t] is the value the frame    *)
(* just left returned; returned[n] collects every value hash() has          *)
(* returned for n.                                                         *)

Frame(n) == [n |-> n, pc |-> "check", k |-> 0, m |-> NoHash]

Top(t) == frames[t][Len(frames[t])]

Goto(t, f) == frames' = [frames EXCEPT ![t][Len(frames[t])] = f]

At(t, l) == frames[t] # <<>> /\ Top(t).pc = l

\* return v from the top frame of thread t
Leave(t, v) ==
    /\ frames' = [frames EXCEPT ![t] = SubSeq(@, 1, Len(@) - 1)]
    /\ ret' = [ret EXCEPT ![t] = v]
    /\ returned' = [returned EXCEPT ![Top(t).n] = @ \cup {v}]

Idle(t) == running[t] = NoOp /\ frames[t] = <<>>

\* n.hash() called by thread t
CallHash(t, n) ==
    /\ Idle(t)
    /\ running' = [running EXCEPT ![t] = <<"hash", n>>]
    /\ done' = [done EXCEPT ![t] = NoOp]
    /\ frames' = [frames EXCEPT ![t] = <<Frame(n)>>]
    /\ UNCHANGED <<mhash, objs, ret, returned, lvars>>

\* if self.mhash:
HashCheck(t) ==
    /\ At(t, "check")
    /\ Goto(t, [Top(t) EXCEPT !.pc = IF mhash[Top(t).n] # NoHash
                                      THEN "cached" ELSE "new"])
    /\ UNCHANGED <<mhash, objs, ret, running, done, returned, lvars>>

\* return self.mhash.value, the attribute found set
HashCached(t) ==
    /\ At(t, "cached")
    /\ Leave(t, objs[mhash[Top(t).n]])
    /\ UNCHANGED <<mhash, objs, running, done, lvars>>

\* self.mhash = hashing.mhash()
HashNew(t) ==
    /\ At(t, "new")
    /\ mhash' = [mhash EXCEPT ![Top(t).n] = Ref(Top(t).n, t)]
    /\ objs' = [objs EXCEPT ![Ref(Top(t).n, t)] = NewValue]
    /\ Goto(t, [Top(t) EXCEPT !.pc = "addstr"])
    /\ UNCHANGED <<ret, running, done, returned, lvars>>

\* self.mhash.addstr(str(type(self))), on the object the attribute holds now
HashAddstr(t) ==
    /\ At(t, "addstr")
    /\ LET n == Top(t).n
       IN  /\ objs' = [objs EXCEPT ![mhash[n]] = addstr(@, Heap[n].tag)]
           /\ Goto(t, [Top(t) EXCEPT
                         !.pc = CASE Heap[n].cls = "Symbol" -> "addname"
                                  [] Heap[n].cls = "Basic" -> "end"
                                  [] OTHER -> "child",
                         !.k = 1])
    /\ UNCHANGED <<mhash, ret, running, done, returned, lvars>>

\* Symbol.hash adds the name
HashAddname(t) ==
    /\ At(t, "addname")
    /\ LET n == Top(t).n
       IN  objs' = [objs EXCEPT ![mhash[n]] = addstr(@, Heap[n].name)]
    /\ Goto(t, [Top(t) EXCEPT !.pc = "value"])
    /\ UNCHANGED <<mhash, ret, running, done, returned, lvars>>

\* self.mhash.addint(self.arg.hash()): the method is looked up, then the
\* child's hash() is called
HashChild(t) ==
    /\ At(t, "child")
    /\ LET f == Top(t)
       IN  frames' = [frames EXCEPT ![t] =
               Append([@ EXCEPT ![Len(@)] = [f EXCEPT !.pc = "addint",
                                                      !.m = mhash[f.n]]],
                      Frame(Heap[f.n].args[f.k]))]
    /\ UNCHANGED <<mhash, objs, ret, running, done, returned, lvars>>

\* ... and addint runs on the object looked up, with the child's value
HashAddint(t) ==
    /\ At(t, "addint")
    /\ ret[t] # NoRet
    /\ LET f == Top(t)
       IN  /\ objs' = [objs EXCEPT ![f.m] = addint(@, ret[t])]
           /\ Goto(t, IF f.k < Len(Heap[f.n].args)
                      THEN [f EXCEPT !.pc = "child", !.k = f.k + 1]
                      ELSE [f EXCEPT !.pc = "value"])
    /\ ret' = [ret EXCEPT ![t] = NoRet]
    /\ UNCHANGED <<mhash, running, done, returned, lvars>>

\* return self.mhash.value, at the end of the method
HashValue(t) ==
    /\ At(t, "value")
    /\ Leave(t, objs[mhash[Top(t).n]])
    /\ UNCHANGED <<mhash, objs, running, done, lvars>>

\* Basic.hash ends after addstr, without a return statement
HashEnd(t) ==
    /\ At(t, "end")
    /\ Leave(t, PyNone)
    /\ UNCHANGED <<mhash, objs, running, done, lvars>>

\* the caller of hash() has its value
FinishHash(t) ==
    /\ running[t] # NoOp
    /\ running[t][1] = "hash"
    /\ frames[t] = <<>>
    /\ ret[t] # NoRet
    /\ done' = [done EXCEPT ![t] = <<"hash", running[t][2], ret[t]>>]
    /\ running' = [running EXCEPT ![t] = NoOp]
    /\ ret' = [ret EXCEPT ![t] = NoRet]
    /\ UNCHANGED <<mhash, objs, frames, returned, lvars>>

HashStep(t) ==
    \/ HashCheck(t)
    \/ HashCached(t)
    \/ HashNew(t)
    \/ HashAddstr(t)
    \/ HashAddname(t)
    \/ HashChild(t)
    \/ HashAddint(t)
    \/ HashValue(t)
    \/ HashEnd(t)
    \/ FinishHash(t)

\* the nodes the threads call hash() on: a Derivative, whose subtree holds
\* a Function and a Symbol, and a node that inherits Basic.hash
HashRoots == {2, 5}

\* threads calling hash() on the nodes
NextHash ==
    \E t \in Threads :
        \/ \E n \in HashRoots : CallHash(t, n)
        \/ HashStep(t)

SpecHash == Init /\ [][NextHash]_vars

\* a == b: isequal(sympify(b)) calls self.hash() ...
CallEq(t, a, b) ==
    /\ Idle(t)
    /\ running' = [running EXCEPT ![t] = <<"eq", a, b, NoRet>>]
    /\ done' = [done EXCEPT ![t] = NoOp]
    /\ frames' = [frames EXCEPT ![t] = <<Frame(a)>>]
    /\ UNCHANGED <<mhash, objs, ret, returned, lvars>>

\* ... then (self.sympify(a)).hash() ...
EqSecond(t) ==
    /\ running[t] # NoOp
    /\ running[t][1] = "eq"
    /\ running[t][4] = NoRet
    /\ frames[t] = <<>>
    /\ ret[t] # NoRet
    /\ running' = [running EXCEPT ![t][4] = ret[t]]
    /\ ret' = [ret EXCEPT ![t] = NoRet]
    /\ frames' = [frames EXCEPT ![t] = <<Frame(running[t][3])>>]
    /\ UNCHANGED <<mhash, objs, done, returned, lvars>>

\* ... and compares the two values
isequal(t) ==
    /\ running[t] # NoOp
    /\ running[t][1] = "eq"
    /\ running[t][4] # NoRet
    /\ frames[t] = <<>>
    /\ ret[t] # NoRet
    /\ done' = [done EXCEPT ![t] =
                  <<"eq", running[t][2], running[t][3], running[t][4] = ret[t]>>]
    /\ running' = [running EXCEPT ![t] = NoOp]
    /\ ret' = [ret EXCEPT ![t] = NoRet]
    /\ UNCHANGED <<mhash, objs, frames, returned, lvars>>

\* one thread calling hash() and == on the nodes
NextEq ==
    \/ \E n \in NodeIds : CallHash(1, n)
    \/ \E a, b \in NodeIds : CallEq(1, a, b)
    \/ HashStep(1)
    \/ EqSecond(1)
    \/ isequal(1)

SpecEq == Init /\ [][NextEq]_vars

----------------------------------------------------------------------------
(* Calls of Basic.leadterm on terms c*v^e and on sums of them.             *)

\* terms c*v^e, no two with the same symbolic part
LeadTerms(v) ==
    { <<"num", 3, 1>>, syma,
      <<"mul", Two, {v}>>,
      <<"mul", One, {syma, v}>>,
      <<"pow", v, Two>>,
      <<"mul", MinusOne, {syma, <<"pow", v, Two>>}>>,
      <<"pow", v, MinusOne>>,
      <<"mul", <<"num", 3, 1>>, {syma, <<"pow", v, MinusOne>>}>>,
      <<"pow", v, <<"num", 1, 2>>>> }

\* the longest sum
MaxTerms == 3

LeadExprs(v) ==
    LeadTerms(v) \cup {v}
        \cup { <<"add", S>> : S \in { T \in SUBSET LeadTerms(v) :
                                        Cardinality(T) \in 2..MaxTerms } }

DoLeadterm(e, x) ==
    /\ Enter
    /\ call' = <<"leadterm", e, x>>
    /\ res' = leadterm(e, x)

NextLead ==
    \/ \E e \in LeadExprs(symx), x \in {symx, symz} : DoLeadterm(e, x)
    \/ Return

SpecLead == Init /\ [][NextLead]_vars

----------------------------------------------------------------------------
(* Function.series and log.series, a statement at a time.  call is         *)
(* <<"series", cls, n>> with cls the class of self; stack is the list of   *)
(* the statements run so far, each with its outcome.  What the callees     *)
(* that are not part of this module do (Basic.series on the derivatives,   *)
(* the series of the argument, its value at 0, its leading coefficient) is *)
(* an input of the step.                                                   *)

\* the classes of functions.py
Classes == {"exp", "log", "sign", "abs_"}

\* the orders asked for
MaxN == 2

\* what a callee does: it returns, raises pole_error, or raises another error
Outcomes == {"ok", "pole_error", "ValueError"}

Raised(o) == Err(o)

Series(how) == <<"series", how>>

\* f.series(sym, n) for f of class cls
CallSeries(cls, n) ==
    /\ pc = "idle"
    /\ call' = <<"series", cls, n>>
    /\ IF cls = "abs_"
       THEN \* abs_.series(self) takes no sym and n
            /\ pc' = "done"
            /\ res' = Err("TypeError")
       ELSE /\ pc' = "try"
            /\ res' = <<>>
    /\ stack' = <<>>
    /\ UNCHANGED <<dummycount, node, order, Omega_default, chain, hvars>>

\* try: return Basic.series(self, sym, n) / except pole_error: pass
\* gives the next statement and the value returned or raised
AfterTry_nocatch(cls, o) ==
    IF o = "ok" THEN <<"done", Series("taylor")>> ELSE <<"done", Raised(o)>>

AfterTry(cls, o) ==
    IF o = "ok" THEN <<"done", Series("taylor")>>
    ELSE IF o = "pole_error" THEN <<"arg", <<>> >>
    ELSE <<"done", Raised(o)>>

TrySeries(o) ==
    /\ pc = "try"
    /\ pc' = AfterTry(call[2], o)[1]
    /\ res' = AfterTry(call[2], o)[2]
    /\ stack' = Append(stack, <<"try", o>>)
    /\ UNCHANGED <<call, dummycount, node, order, Omega_default, chain, hvars>>

\* arg = self.arg.series(sym, n); dep: the series of the argument has sym
ArgSeries(o, dep) ==
    /\ pc = "arg"
    /\ IF o = "ok"
       THEN /\ pc' = IF call[2] = "log" THEN "leadterm" ELSE "z0"
            /\ res' = <<>>
            /\ stack' = Append(stack, <<"arg", o, dep>>)
       ELSE /\ pc' = "done"
            /\ res' = Raised(o)
            /\ stack' = Append(stack, <<"arg", o>>)
    /\ UNCHANGED <<call, dummycount, node, order, Omega_default, chain, hvars>>

\* z0 = arg.subs(log(sym), l).subs(sym, 0), then e = type(self)(w) and, when
\* arg has sym, e = e.series(w, n): exp(w) and sign(w) have a Taylor series
\* at 0, so this inner call returns from its try
Z0(o) ==
    /\ pc = "z0"
    /\ IF o = "ok"
       THEN /\ pc' = "assert"
            /\ res' = <<>>
       ELSE /\ pc' = "done"
            /\ res' = Raised(o)
    /\ stack' = Append(stack, <<"z0", o>>)
    /\ UNCHANGED <<call, dummycount, node, order, Omega_default, chain, hvars>>

\* assert isinstance(self, exp), then return (exp(z0)*e).expand()...
AssertExp ==
    /\ pc = "assert"
    /\ pc' = "done"
    /\ res' = IF call[2] = "exp" THEN Series("exp(z0)*e") ELSE AssertionError
    /\ stack' = Append(stack, <<"assert", IF call[2] = "exp" THEN "ok" ELSE "AssertionError">>)
    /\ UNCHANGED <<call, dummycount, node, order, Omega_default, chain, hvars>>

\* log.series: c0, e0 = arg.leadterm(w); if c0.isnumber(): assert
\* c0.evalf() > 0; then the sum log(c0) + e0*log(w) + Phi - Phi**2/2 ...
\* c0 is a positive number, a number that is not positive, or no number
LogLeadterm(c0) ==
    /\ pc = "leadterm"
    /\ pc' = "done"
    /\ res' = IF c0 = "nonpositive" THEN AssertionError ELSE Series("log(c0)+e0*log(w)+...")
    /\ stack' = Append(stack, <<"leadterm", c0>>)
    /\ UNCHANGED <<call, dummycount, node, order, Omega_default, chain, hvars>>

NextSeries ==
    \/ \E cls \in Classes, n \in 1..MaxN : CallSeries(cls, n)
    \/ \E o \in Outcomes : TrySeries(o)
    \/ \E o \in Outcomes, dep \in BOOLEAN : ArgSeries(o, dep)
    \/ \E o \in Outcomes : Z0(o)
    \/ AssertExp
    \/ \E c0 \in {"positive", "nonpositive", "symbolic"} : LogLeadterm(c0)
    \/ Return

SpecSeries == Init /\ [][NextSeries]_vars

----------------------------------------------------------------------------
(* Calls of rewrite on an expression and its mrv set, the members in       *)
(* every order of the set; stack is the list of the members in the order   *)
(* rewrite substitutes them.                                               *)

\* exp(x + exp(-x))
ExpSum == <<"exp", <<"add", {<<"exp", <<"mul", MinusOne, {symx}>>>>, symx}>>>>

\* <<e, Omega>>: exp(x); exp(-x); exp(x)/x; exp(x) + exp(2x); exp(x) + exp(-x);
\* exp(x + exp(-x)); exp(x + exp(-x)) - exp(x); exp(x^2); exp(x) + exp(x^2)
\* with both as Omega
RewriteCases ==
    { << <<"exp", symx>>, {<<"exp", symx>>} >>,
      << <<"exp", <<"mul", MinusOne, {symx}>>>>,
         {<<"exp", <<"mul", MinusOne, {symx}>>>>} >>,
      << <<"mul", One, {<<"exp", symx>>, <<"pow", symx, MinusOne>>}>>,
         {<<"exp", symx>>} >>,
      << <<"add", {<<"exp", symx>>, <<"exp", <<"mul", Two, {symx}>>>>}>>,
         {<<"exp", symx>>, <<"exp", <<"mul", Two, {symx}>>>>} >>,
      << <<"add", {<<"exp", symx>>, <<"exp", <<"mul", MinusOne, {symx}>>>>}>>,
         {<<"exp", symx>>, <<"exp", <<"mul", MinusOne, {symx}>>>>} >>,
      << ExpSum, {ExpSum, <<"exp", <<"mul", MinusOne, {symx}>>>>} >>,
      << <<"add", {ExpSum, <<"mul", MinusOne, {<<"exp", symx>>}>>}>>,
         {ExpSum, <<"exp", symx>>, <<"exp", <<"mul", MinusOne, {symx}>>>>} >>,
      << <<"exp", <<"pow", symx, Two>>>>, {<<"exp", <<"pow", symx, Two>>>>} >>,
      << <<"add", {<<"exp", symx>>, <<"exp", <<"pow", symx, Two>>>>}>>,
         {<<"exp", symx>>, <<"exp", <<"pow", symx, Two>>>>} >> }

\* rewrite(e, Omega, x, wsym), wsym the dummy w that mrv_leadterm makes
CallRewrite(e, Omega, x) ==
    /\ pc = "idle"
    /\ dummycount + DummiesPerCall <= MaxDummy
    /\ pc' = "done"
    /\ dummycount' = dummycount + DummiesPerCall
    /\ call' = <<"rewrite", e, Omega, x, Dummy("w", dummycount + 2)>>
    /\ res' = rewrite(e, Omega, x, Dummy("w", dummycount + 2))
    /\ stack' = SortOmega(Omega, x)
    /\ UNCHANGED <<node, order, Omega_default, chain, hvars>>

NextRewrite ==
    \/ \E c \in RewriteCases : CallRewrite(c[1], c[2], symx)
    \/ \E k \in 0..(MaxOrder - 1) : ChangeOrder(k)
    \/ Return

SpecRewrite == Init /\ [][NextRewrite]_vars

----------------------------------------------------------------------------
(* Calls of mrv and of mrv_leadterm with the default Omega.                *)

NextMrv ==
    \/ \E x \in Variables :
           \E e \in Basics(x) \cup Others(x) \cup LogExprs(x) : DoMrv(e, x)
    \/ \E e \in Basics(symx) \cup Others(symx) \cup LogExprs(symx) :
           DoMrvLeadterm(e, symx)
    \/ Return

SpecMrv == Init /\ [][NextMrv]_vars

----------------------------------------------------------------------------
(* Calls of has and of subexp, and of mrv, whose first test is has.        *)

\* the symbols asked for: x, the symbol named dummy, a, and a dummy x of an
\* earlier call
HasSymbols == {symx, symdummy, syma, Dummy("x", 1)}

\* e.has(sub)
DoHas(e, sub) ==
    /\ Enter
    /\ call' = <<"has", e, sub>>
    /\ res' = <<"bool", has(e, sub)>>

\* subexp(e, sub)
DoSubexp(e, sub) ==
    /\ Enter
    /\ call' = <<"subexp", e, sub>>
    /\ res' = <<"bool", subexp(e, sub)>>

NextHas ==
    \/ \E x \in Variables, s \in HasSymbols :
           \E e \in Basics(x) \cup Others(x) : DoHas(e, s)
    \/ \E x \in Variables :
           \E e \in Basics(x) \cup Others(x) :
               \E sub \in HasSymbols \cup Basics(x) : DoSubexp(e, sub)
    \/ \E x \in Variables : \E e \in Basics(x) \cup Others(x) : DoMrv(e, x)
    \/ Return

SpecHas == Init /\ [][NextHas]_vars

----------------------------------------------------------------------------
(* moveup and movedown on lists, one after the other: stack keeps the list *)
(* the first move was given.                                               *)

\* lists of one expression, and pairs (c0, e0) as mrv_leadterm moves them
MoveLists(x) ==
    {<<e>> : e \in Basics(x) \cup LogExprs(x)}
        \cup {<<<<"exp", <<"exp", x>>>>>>, <<<<"pow", x, x>>>>,
              <<<<"fn", "sin", <<x>>>>>>, <<<<"log", <<"log", x>>>>>>,
              <<<<"log", <<"add", {x, One}>>>>>>,
              <<<<"exp", <<"mul", Two, {x}>>>>>>,
              <<x, Zero>>, <<<<"exp", x>>, One>>, <<<<"log", x>>, MinusOne>>}

DoMoveup(l, x) ==
    /\ Enter
    /\ call' = <<"moveup", l, x>>
    /\ res' = MoveupList(l, x)

DoMovedown(l, x) ==
    /\ Enter
    /\ call' = <<"movedown", l, x>>
    /\ res' = MovedownList(l, x)

\* movedown(moveup(l, x), x)
ThenMovedown ==
    /\ pc = "done"
    /\ call[1] = "moveup"
    /\ stack = <<>>
    /\ call' = <<"movedown", res, call[3]>>
    /\ res' = MovedownList(res, call[3])
    /\ stack' = call[2]
    /\ UNCHANGED <<pc, dummycount, node, order, Omega_default, chain, hvars>>

\* moveup(movedown(l, x), x)
ThenMoveup ==
    /\ pc = "done"
    /\ call[1] = "movedown"
    /\ stack = <<>>
    /\ call' = <<"moveup", res, call[3]>>
    /\ res' = MoveupList(res, call[3])
    /\ stack' = call[2]
    /\ UNCHANGED <<pc, dummycount, node, order, Omega_default, chain, hvars>>

\* the second move has returned; the caller drops the lists
ReturnMove ==
    /\ pc = "done"
    /\ pc' = "idle"
    /\ call' = <<>>
    /\ res' = <<>>
    /\ stack' = <<>>
    /\ UNCHANGED <<dummycount, node, order, Omega_default, chain, hvars>>

NextMove ==
    \/ \E l \in MoveLists(symx) : DoMoveup(l, symx)
    \/ \E l \in MoveLists(symx) : DoMovedown(l, symx)
    \/ ThenMovedown
    \/ ThenMoveup
    \/ ReturnMove

SpecMove == Init /\ [][NextMove]_vars

----------------------------------------------------------------------------
(* The older core (sym): leadterm on a node <<"obj", cls, evaluated, form>> *)
(* a frame at a time.  cls tells which eval() the node runs: "Basic" is     *)
(* Basic.eval, which returns self and does not call hold(); "Add" is the    *)
(* eval() of a subclass, which returns the canonical node with hold()       *)
(* called.  form is <<"raw", a, b>>, the sum a + b as the operator built    *)
(* it, or the canonical expression.  stack holds the nodes of the open      *)
(* frames of leadterm, the last one running; chain holds, from the call    *)
(* on, the pair the frame of an evaluated node is going to compute.        *)

SymNode(cls, evaluated, form) == <<"obj", cls, evaluated, form>>

\* the canonical form of a node's content
Canonical(form) == IF form[1] = "raw" THEN Add(form[2], form[3]) ELSE form

\* Basic.hold: sets the flag and returns self
hold(n) == SymNode(n[2], TRUE, n[4])

\* self.eval(): Basic.eval returns self; a subclass returns the canonical
\* node, on which it called hold()
SymEval(n) ==
    IF n[2] = "Basic" THEN n
    ELSE hold(SymNode(n[2], n[3], Canonical(n[4])))

\* a + b not yet evaluated, canonical sums and terms already held, and nodes
\* of a class that keeps Basic.eval
SymNodes(v) ==
    {SymNode("Add", FALSE, <<"raw", a, b>>) : a, b \in LeadTerms(v)}
        \cup {SymNode("Add", TRUE, e) : e \in LeadTerms(v)}
        \cup {SymNode("Basic", FALSE, e) : e \in LeadTerms(v)}

\* n.leadterm(x) is called
CallSymLeadterm(n, x) ==
    /\ pc = "idle"
    /\ pc' = "running"
    /\ call' = <<"sym_leadterm", n, x>>
    /\ res' = <<>>
    /\ stack' = <<n>>
    /\ chain' = <<leadterm(Canonical(n[4]), x)>>
    /\ UNCHANGED <<dummycount, node, order, Omega_default, hvars>>

\* the running frame: an evaluated node computes its leading term and every
\* frame under it returns that value; a node that is not evaluated calls
\* self.eval().leadterm(x); the interpreter raises RuntimeError when the
\* stack is full
StepSymLeadterm ==
    /\ pc = "running"
    /\ call[1] = "sym_leadterm"
    /\ LET top == stack[Len(stack)]
       IN  IF top[3]
           THEN /\ pc' = "done"
                /\ res' = chain[1]
                /\ stack' = <<>>
           ELSE IF Len(stack) >= MaxDepth
                THEN pc' = "done" /\ res' = RecursionError /\ stack' = <<>>
                ELSE /\ stack' = Append(stack, SymEval(top))
                     /\ UNCHANGED <<pc, res>>
    /\ UNCHANGED <<call, dummycount, node, order, Omega_default, chain, hvars>>

NextSym ==
    \/ \E n \in SymNodes(symx), x \in {symx, symz} : CallSymLeadterm(n, x)
    \/ StepSymLeadterm
    \/ Return

SpecSym == Init /\ [][NextSym]_vars /\ WF_vars(StepSymLeadterm)

----------------------------------------------------------------------------
(* Properties of the calls.  In a "done" state call holds the operation    *)
(* and its arguments, res the outcome, and dummycount has moved past the   *)
(* serial numbers the call drew.                                           *)

Done(op) == pc = "done" /\ call[1] = op

\* s occurs in e as a subexpression
RECURSIVE Occurs(_, _)
Occurs(e, s) ==
    \/ e = s
    \/ e[1] = "add" /\ \E t \in e[2] : Occurs(t, s)
    \/ e[1] = "mul" /\ \E f \in e[3] : Occurs(f, s)
    \/ e[1] = "pow" /\ (Occurs(e[2], s) \/ Occurs(e[3], s))
    \/ e[1] \in {"exp", "log"} /\ Occurs(e[2], s)
    \/ e[1] = "fn" /\ \E i \in DOMAIN e[3] : Occurs(e[3][i], s)
    \/ e[1] = "Limit2" /\ \E i \in 2..4 : Occurs(e[i], s)

\* the dummy x the call in call drew, and the one the next call would draw
FreshDummies ==
    {Dummy("x", k) : k \in {dummycount - DummiesPerCall + 1, dummycount + 1}}

\* C1: for a Symbol z, limit(e, z, oo, dir) returns limitinf(e, z) and
\* limit(e, z, -oo, dir) returns limitinf(e[z := -z], z), and every dir gives
\* that same result
C1_LimitAtInfinity ==
    (Done("limit") /\ IsSymbol(call[3]) /\ call[4] \in {oo, moo}) =>
        /\ res = IF call[4] = oo THEN limitinf(call[2], call[3])
                 ELSE limitinf(subs(call[2], call[3], Neg(call[3])), call[3])
        /\ \A dir \in Dirs : limit(call[2], call[3], call[4], dir) = res

\* limit(exp(z), z, -oo, "-") has returned limitinf(exp(-z), z) = 0
C1_Witness ==
    /\ Done("limit")
    /\ call = <<"limit", <<"exp", symz>>, symz, moo, "-">>
    /\ res = Zero

\* C2: for a Symbol z and a finite z0, limit(e, z, z0, dir) returns
\* limitinf(e[z := z0 + 1/t], t) for dir "+" and limitinf(e[z := z0 - 1/t], t)
\* for dir "-", for a dummy t that is no symbol of e or z0, a user symbol x
\* included: no symbol of e other than z is replaced
C2_LimitAtFinitePoint ==
    (Done("limit") /\ IsSymbol(call[3]) /\ call[4] \notin {oo, moo}
        /\ call[5] \in {"+", "-"}) =>
        \A t \in FreshDummies :
            /\ ~Occurs(call[2], t) /\ ~Occurs(call[4], t)
            /\ res = limitinf(subs(call[2], call[3],
                                   IF call[5] = "+"
                                   THEN Add(call[4], Div(One, t))
                                   ELSE Sub(call[4], Div(One, t))), t)

\* limit(x*z, z, 1, "+") has returned x: the user symbol x was not captured
C2_Witness ==
    /\ Done("limit")
    /\ call = <<"limit", <<"mul", One, {symx, symz}>>, symz, One, "+">>
    /\ res = symx

\* C3: limit raises NotImplementedError when z is not a Symbol, whatever e
\* is; for a Symbol z and a finite z0 it raises NotImplementedError when dir
\* is neither "+" nor "-"; for z0 = oo or -oo every dir gives the outcome of
\* dir = "+"
C3_LimitErrors ==
    Done("limit") =>
        /\ ~IsSymbol(call[3]) => res = NotImplementedError
        /\ (IsSymbol(call[3]) /\ call[4] \notin {oo, moo}
              /\ call[5] \notin {"+", "-"}) => res = NotImplementedError
        /\ (IsSymbol(call[3]) /\ call[4] \in {oo, moo}) =>
              res = limit(call[2], call[3], call[4], "+")

\* limit(1/z, z, 0, "0") has raised NotImplementedError
C3_Witness ==
    /\ Done("limit")
    /\ call = <<"limit", <<"pow", symz, MinusOne>>, symz, Zero, "0">>
    /\ res = NotImplementedError


\* C4: limitinf(e, x) returns e unchanged when e does not depend on x;
\* otherwise, with (c0, e0) = mrv_leadterm(e, x), it returns 0 when
\* sign(e0, x) is 1, sign(c0, x)*oo when sign(e0, x) is -1, after asserting
\* that sign(c0, x) is not 0, and limitinf(c0, x) when sign(e0, x) is 0; an
\* exception of mrv_leadterm or sign is the outcome of the call
C4_LimitinfCases ==
    Done("limitinf") =>
        LET e == call[2]
            x == call[3]
            lt == mrv_leadterm(e, x, {})
            sig == sign(lt[3], x)
            s == sign(lt[2], x)
        IN  /\ res # None
            /\ res = IF ~Occurs(e, x) THEN e
                     ELSE IF lt[1] = "err" THEN lt
                     ELSE IF sig[1] = "err" THEN sig
                     ELSE IF sig = One THEN Zero
                     ELSE IF sig = MinusOne
                          THEN IF s[1] = "err" THEN s
                               ELSE IF s = Zero THEN AssertionError
                               ELSE Mul(s, oo)
                     ELSE limitinf(lt[2], x)

\* a call on an expression that depends on x and whose leading term c0*w^e0
\* has sign(e0, x) = 0 has returned limitinf(c0, x) = 1
C4_Witness ==
    /\ Done("limitinf")
    /\ call[3] = symx
    /\ Occurs(call[2], symx)
    /\ ~IsErr(mrv_leadterm(call[2], symx, {}))
    /\ sign(mrv_leadterm(call[2], symx, {})[3], symx) = Zero
    /\ res = One

\* |e| for an e that keeps one sign as x -> oo
AbsOf(e, x) == IF sign(e, x) = MinusOne THEN Neg(e) ELSE e

\* C5: compare(a, b, x) returns exactly one of "<", "=", ">" according to
\* L = lim log|a| / log|b| for x -> oo: "<" when L is 0, ">" when L is +oo or
\* -oo, "=" when L is any other value
C5_CompareByLogAbs ==
    (Done("compare") /\ res[1] # "err") =>
        LET L == inflimit(Div(log(AbsOf(call[2], call[4])),
                              log(AbsOf(call[3], call[4]))), call[4])
        IN  L[1] = "err" \/ res = IF L = Zero THEN Str("<")
                              ELSE IF L \in {oo, moo} THEN Str(">")
                              ELSE Str("=")

OneClass(S, x) == \A p, q \in S : compare(p, q, x) = Str("=")

C8_MrvStructure ==
    (Done("mrv") /\ call[2][1] # "exp") =>
        LET e == call[2]
            x == call[3]
            ab == as_two_terms(e)
        IN  res = IF ~Occurs(e, x) THEN SetOf({})
                  ELSE IF e = x THEN SetOf({x})
                  ELSE IF e[1] \in {"add", "mul"}
                       THEN mrv_max(mrv(ab[1], x), mrv(ab[2], x), x)
                  ELSE IF e[1] = "pow"
                       THEN IF Occurs(e[3], x)
                            THEN mrv(exp(Mul(e[3], log(e[2]))), x)
                            ELSE mrv(e[2], x)
                  ELSE IF e[1] = "log" THEN mrv(e[2], x)
                  ELSE IF e[1] = "fn" /\ Len(e[3]) = 1 THEN mrv(e[3][1], x)
                  ELSE NotImplementedError

RECURSIVE Subexprs(_)
Subexprs(e) ==
    {e} \cup
    (IF e[1] = "add" THEN UNION {Subexprs(t) : t \in e[2]}
     ELSE IF e[1] = "mul" THEN UNION {Subexprs(f) : f \in e[3]}
     ELSE IF e[1] = "pow" THEN Subexprs(e[2]) \cup Subexprs(e[3])
     ELSE IF e[1] \in {"exp", "log"} THEN Subexprs(e[2])
     ELSE IF e[1] = "fn" THEN UNION {Subexprs(e[3][i]) : i \in DOMAIN e[3]}
     ELSE IF e[1] = "Limit2" THEN UNION {Subexprs(e[i]) : i \in 2..4}
     ELSE {})

\* C10: the members of a set returned by mrv(e, x) are mutually
\* comparability-equal, compare(a, b, x) = "=" for all a, b in it, and no
\* subexpression of e is in a strictly higher comparability class than the
\* members of the set
C10_MrvMostRapid ==
    (Done("mrv") /\ res[1] # "err") =>
        /\ \A a, b \in res[2] :
               IsErr(compare(a, b, call[3])) \/ compare(a, b, call[3]) = Str("=")
        /\ \A s \in Subexprs(call[2]) : \A m \in res[2] :
               Occurs(s, call[3]) => compare(s, m, call[3]) # Str(">")

\* every member of Omega is exp(a) with a tending to an infinity, as the
\* members of an mrv set are
MrvLike(Omega, x) ==
    /\ Omega # {}
    /\ \A t \in Omega : t[1] = "exp" /\ inflimit(t[2], x) \in {oo, moo}

\* C11: rewrite(e, Omega, x, w) makes w vanish at infinity: for the chosen
\* g = exp(g_arg) of Omega, when sign(g_arg, x) is 1 g is replaced by 1/w and
\* the returned logw is -g_arg, otherwise g is replaced by w and logw is
\* g_arg; in both cases logw tends to -oo for x -> oo
C11_RewriteVanishes ==
    (Done("rewrite") /\ res[1] # "err" /\ MrvLike(call[3], call[4])) =>
        \E g \in call[3] :
            LET x == call[4]
                w == call[5]
                s == sign(g[2], x)
            IN  /\ res[3] = IF s = One THEN Neg(g[2]) ELSE g[2]
                /\ limitinf(res[3], x) = moo
                /\ ~Occurs(res[2], g)
                /\ rewrite(g, call[3], x, w)[2]
                       = IF s = One THEN Pow(w, MinusOne) ELSE w

\* rewrite(exp(x)/x, {exp(x)}, x, w) has returned (1/w)/x with logw = -x
C11_Witness ==
    /\ Done("rewrite")
    /\ call[2] = <<"mul", One, {<<"exp", symx>>, <<"pow", symx, MinusOne>>}>>
    /\ call[3] = {<<"exp", symx>>}
    /\ res = <<"rw", <<"mul", One, {<<"pow", call[5], MinusOne>>,
                                    <<"pow", symx, MinusOne>>}>>,
               <<"mul", MinusOne, {symx}>>>>

\* the sign of the integer n as a number node
SgnOf(n) == IF n > 0 THEN One ELSE IF n = 0 THEN Zero ELSE MinusOne

\* C12: sign(e, x) returns -1, 0 or 1, the sign of e for x -> oo; for an e
\* that does not depend on x it is the sign of the numeric value of e, 0 for
\* a constant whose value is zero; for an e whose limit is an infinity or a
\* number other than 0 it is the sign of that limit
C12_SignValue ==
    (Done("sign") /\ res[1] # "err") =>
        LET e == call[2]
            x == call[3]
            v == evalf(e)
            l == limitinf(e, x)
        IN  /\ res \in {MinusOne, Zero, One}
            /\ (~Occurs(e, x) /\ v[1] # "err") => res = SgnOf(v[2])
            /\ (Occurs(e, x) /\ IsInf(l)) => res = SgnOf(l[2])
            /\ (Occurs(e, x) /\ IsNum(l) /\ l # Zero) => res = SgnOf(QSign(l))

C14_MrvLeadtermLift ==
    Done("mrv_leadterm") =>
        LET e == call[2]
            x == call[3]
            Om == mrv(e, x)
            e_up == subs(e, x, exp(x))
        IN  /\ ~Occurs(e, x) => res = LT(e, Zero)
            /\ (Occurs(e, x) /\ Om[1] # "err" /\ x \in Om[2]) =>
                  /\ res = movedown(mrv_leadterm(e_up, x, moveup(Om[2], x)), x)
                  /\ (res[1] # "err" /\ subexp(e_up, exp(x))
                        /\ mrv(e_up, x) = SetOf({exp(x)})) =>
                        limitinf(Div(e, Mul(res[2], Pow(x, Neg(res[3])))), x)
                            = One

\* mrv_leadterm(log(x)/x, x) has returned (log(x), 1): the lifted pair (x, 1)
\* moved down
C14_Witness ==
    /\ Done("mrv_leadterm")
    /\ call[2] = <<"mul", One, {<<"log", symx>>, <<"pow", symx, MinusOne>>}>>
    /\ symx \in mrv(call[2], symx)[2]
    /\ res = LT(<<"log", symx>>, One)

C16_LimitDeterministic ==
    /\ [](Done("limit") => res = limit(call[2], call[3], call[4], call[5]))
    /\ [](Omega_default = {})
    /\ [][Omega_default' = Omega_default]_vars

----------------------------------------------------------------------------
(* Properties of the hash cache.                                           *)

\* the value n's cache holds after a hash() that no other call overlaps
RECURSIVE ContentHash(_)
RECURSIVE AddChildren(_, _, _)
AddChildren(v, args, k) ==
    IF k > Len(args) THEN v
    ELSE AddChildren(addint(v, ContentHash(args[k])), args, k + 1)

ContentHash(n) ==
    CASE Heap[n].cls = "Symbol" -> addstr(addstr(NewValue, Heap[n].tag), Heap[n].name)
      [] Heap[n].cls = "Basic" -> addstr(NewValue, Heap[n].tag)
      [] OTHER -> AddChildren(addstr(NewValue, Heap[n].tag), Heap[n].args, 1)

\* the values n.hash() returns when calls do not overlap: the computing
\* call's and the later calls'
SeqReturns(n) ==
    IF Heap[n].cls = "Basic" THEN {PyNone, ContentHash(n)} ELSE {ContentHash(n)}

HashDone(t) == done[t] # NoOp /\ done[t][1] = "hash"
EqDone(t) == done[t] # NoOp /\ done[t][1] = "eq"

\* C18: whatever the interleaving of the threads, every call of hash() on a
\* node, a caller's or a parent node's, returns a value that a call on its
\* own returns: the node's full content hash, never a part of it.
C18_HashRaceFree ==
    /\ \A t \in Threads : HashDone(t) => done[t][3] \in SeqReturns(done[t][2])
    /\ \A n \in NodeIds : returned[n] \subseteq SeqReturns(n)

Hashed(n) == mhash[n] # NoHash
Cached(n) == objs[mhash[n]]
Quiet == \A t \in Threads : frames[t] = <<>>

\* C19: hash() returns one value for a node, on the call that computes it
\* and on the calls that read the cache; the cached value is determined by
\* the type tag (and name, for a symbol) and the children's hashes; n == n
\* holds; and a == b holds iff the hashes of a and b are equal.
C19_HashStable ==
    /\ \A n \in NodeIds : Cardinality(returned[n]) <= 1
    /\ Quiet =>
         \A a, b \in NodeIds :
            ( /\ Hashed(a) /\ Hashed(b)
              /\ Heap[a].tag = Heap[b].tag /\ Heap[a].name = Heap[b].name
              /\ Len(Heap[a].args) = Len(Heap[b].args)
              /\ \A k \in DOMAIN Heap[a].args :
                    /\ Hashed(Heap[a].args[k]) /\ Hashed(Heap[b].args[k])
                    /\ Cached(Heap[a].args[k]) = Cached(Heap[b].args[k]) )
            => Cached(a) = Cached(b)
    /\ \A t \in Threads :
         EqDone(t) =>
            /\ done[t][2] = done[t][3] => done[t][4]
            /\ done[t][4] <=> (Cached(done[t][2]) = Cached(done[t][3]))

----------------------------------------------------------------------------
(* Properties of Basic.leadterm.                                           *)

\* the factor of the term t that is x or a power of x
XPow(t, x) == {f \in Factors(t) : f = x \/ (f[1] = "pow" /\ f[2] = x)}

\* t = TermCoef * x^TermExp
TermExp(t, x) ==
    IF XPow(t, x) = {} THEN Zero
    ELSE LET f == CHOOSE f \in XPow(t, x) : TRUE IN IF f = x THEN One ELSE f[3]

TermCoef(t, x) ==
    IF XPow(t, x) = {} THEN t ELSE FromFactors(CoeffOf(t), Factors(t) \ XPow(t, x))

\* the k-th arrangement of the list L: a rotation, reversed for odd k
Reorder(L, k) ==
    LET n == Len(L)
        rot == [i \in 1..n |-> L[((i - 1 + (k \div 2)) % n) + 1]]
    IN  IF k % 2 = 1 THEN [i \in 1..n |-> rot[n + 1 - i]] ELSE rot

\* leadterm of the sum whose terms are stored as the list args
LeadOf(args, x) ==
    LET l == Dummy("l", dummycount + 3)
        lowest == LeadLoop(args, 1, LT(Zero, TenToTen), x, l)
    IN  IF lowest[1] = "err" THEN lowest
        ELSE LT(subs(lowest[2], l, Neg(log(x))), subs(lowest[3], l, Neg(log(x))))

\* C20: leadterm(x) of a sum of terms c*x^e returns (C, E) with E the least
\* exponent of the terms and C the sum of the coefficients of the terms of
\* exponent E, in whatever order the terms are stored; of a single c*x^e
\* it returns (c, e), and (t, 0) of a t without x.
C20_LeadtermMinimal ==
    Done("leadterm") =>
        LET e == call[2]
            x == call[3]
        IN  IF e[1] = "add"
            THEN LET E == QMinSet({TermExp(t, x) : t \in e[2]})
                     C == SumSet({TermCoef(t, x) : t \in {u \in e[2] : TermExp(u, x) = E}})
                 IN  /\ res = LT(C, E)
                     /\ \A k \in 0..(2 * Len(ArgSeq(e[2])) - 1) :
                           LeadOf(Reorder(ArgSeq(e[2]), k), x) = res
            ELSE /\ res = LT(TermCoef(e, x), TermExp(e, x))
                 /\ ~Occurs(e, x) => res = LT(e, Zero)

\* a sum of three terms, two of which share the least exponent: leadterm(a*x + 2*x + x^2, x) has returned (2 + a, 1)
C20_Witness ==
    /\ Done("leadterm")
    /\ call[2] = <<"add", { <<"mul", One, {syma, symx}>>, <<"mul", Two, {symx}>>,
                            <<"pow", symx, Two>> }>>
    /\ call[3] = symx
    /\ res = LT(<<"add", {Two, syma}>>, One)

----------------------------------------------------------------------------
(* Properties of series.                                                   *)

\* the statement of the alternate expansion that ran last, <<>> if none ran
LastStep == IF stack = <<>> THEN <<>> ELSE stack[Len(stack)]

\* the try of series raised pole_error
TryFailed == stack # <<>> /\ stack[1] = <<"try", "pole_error">>

\* C21: a pole_error of the direct expansion is caught inside series and
\* the alternate expansion is started; series raises pole_error only when
\* a statement of the alternate expansion itself raised it, and when every
\* statement of the alternate expansion returned and self is an exp or a
\* log with a leading coefficient that is not a non-positive number, series
\* returns the alternate series; a function of another class, which has no
\* alternate expansion, ends with an error.
C21_PoleErrorCaught ==
    /\ [][(pc = "try" /\ pc' = "done") => res' # pole_error]_vars
    /\ [][(pc = "try" /\ pc' # "done") =>
             (stack'[1] = <<"try", "pole_error">> /\ pc' = "arg")]_vars
    /\ [](Done("series") /\ res = pole_error =>
             LastStep \in {<<"arg", "pole_error">>, <<"z0", "pole_error">>})
    /\ [](Done("series") /\ TryFailed =>
             IF call[2] = "exp"
             THEN LastStep = <<"assert", "ok">> => res = Series("exp(z0)*e")
             ELSE IF call[2] = "log"
             THEN (LastStep[1] = "leadterm" /\ LastStep[2] # "nonpositive")
                     => res = Series("log(c0)+e0*log(w)+...")
             ELSE res[1] = "err")
    /\ [](Done("series") /\ call[2] \notin {"exp", "log"} /\ res[1] # "err" =>
             (res = Series("taylor") /\ stack = <<<<"try", "ok">>>>))

\* exp's direct expansion raised pole_error and the alternate one returned
C21_Witness ==
    /\ Done("series")
    /\ call[2] = "exp"
    /\ stack = << <<"try", "pole_error">>, <<"arg", "ok", TRUE>>, <<"z0", "ok">>,
                  <<"assert", "ok">> >>
    /\ res = Series("exp(z0)*e")

----------------------------------------------------------------------------
(* Properties of the substitutions of rewrite.                             *)

\* exp(f_arg - c*g_arg) * W^c for the member f, with (c, 0) the leading term
\* of f_arg/g_arg
RewrittenAs(f, g, W, x) ==
    LET c == mrv_leadterm(Div(f[2], g[2]), x, {})
    IN  IF c[1] = "err" THEN c
        ELSE IF c[3] # Zero THEN AssertionError
        ELSE Mul(exp(expand(Sub(f[2], Mul(c[2], g[2])))), Pow(W, c[2]))

\* t with every member of Omega replaced by its rewritten form, wherever it
\* occurs, also inside the rewritten form of another member
RECURSIVE Replaced(_, _, _, _, _), ReplacedSum(_, _, _, _, _), ReplacedProd(_, _, _, _, _)
Replaced(t, Omega, g, W, x) ==
    IF t[1] = "err" THEN t
    ELSE IF t \in Omega THEN Replaced(RewrittenAs(t, g, W, x), Omega, g, W, x)
    ELSE IF t[1] = "add" THEN ReplacedSum(t[2], Omega, g, W, x)
    ELSE IF t[1] = "mul" THEN Mul(t[2], ReplacedProd(t[3], Omega, g, W, x))
    ELSE IF t[1] = "pow"
         THEN Pow(Replaced(t[2], Omega, g, W, x), Replaced(t[3], Omega, g, W, x))
    ELSE IF t[1] = "exp" THEN exp(Replaced(t[2], Omega, g, W, x))
    ELSE IF t[1] = "log" THEN log(Replaced(t[2], Omega, g, W, x))
    ELSE t

ReplacedSum(S, Omega, g, W, x) ==
    IF S = {} THEN Zero
    ELSE LET t == CHOOSE t \in S : TRUE
         IN  Add(Replaced(t, Omega, g, W, x), ReplacedSum(S \ {t}, Omega, g, W, x))

ReplacedProd(S, Omega, g, W, x) ==
    IF S = {} THEN One
    ELSE LET t == CHOOSE t \in S : TRUE
         IN  Mul(Replaced(t, Omega, g, W, x), ReplacedProd(S \ {t}, Omega, g, W, x))

\* C22: when rewrite(e, Omega, x, w) returns, with g the member of Omega it
\* chose (the last one in the order of substitution), there is W = w or 1/w
\* such that for every member f = exp(f_arg) the leading term of f_arg/g_arg
\* is (c, 0), the expression returned is e with every member f replaced by
\* exp(f_arg - c*g_arg) * W^c, g itself by W, and no member of Omega is left
\* in it.
C22_RewriteReplaces ==
    (Done("rewrite") /\ res[1] # "err") =>
        LET e == call[2]
            Omega == call[3]
            x == call[4]
            w == call[5]
            g == stack[Len(stack)]
        IN  \E W \in {w, Pow(w, MinusOne)} :
               /\ g \in Omega
               /\ \A f \in Omega :
                     LET c == mrv_leadterm(Div(f[2], g[2]), x, {})
                     IN  c[1] # "err" /\ c[3] = Zero
               /\ RewrittenAs(g, g, W, x) = W
               /\ res[2] = Replaced(e, Omega, g, W, x)
               /\ \A f \in Omega : ~Occurs(res[2], f)

\* rewrite(exp(x + exp(-x)) - exp(x), {exp(x + exp(-x)), exp(x), exp(-x)}, x, w)
\* has returned exp(w)/w - 1/w
C22_Witness ==
    /\ Done("rewrite")
    /\ call[3] = {ExpSum, <<"exp", symx>>, <<"exp", <<"mul", MinusOne, {symx}>>>>}
    /\ res[1] = "rw"
    /\ res[2] = <<"add", { <<"mul", MinusOne, {<<"pow", call[5], MinusOne>>}>>,
                           <<"mul", One, {<<"exp", call[5]>>,
                                          <<"pow", call[5], MinusOne>>}>> }>>

----------------------------------------------------------------------------
(* Properties of the order of the substitutions of rewrite.                *)

\* the number of members of the mrv set of f
MrvSize(f, x) == Cardinality(mrv(f, x)[2])

\* C27: in rewrite(e, Omega, x, w) the members of Omega are substituted in
\* an order (kept in stack) in which the sizes of their own mrv sets never
\* increase; g, the last one, has an mrv set with the fewest members of all,
\* and a member that contains another member as a subexpression comes before
\* the member it contains.
C27_SubstitutionOrder ==
    Done("rewrite") =>
        LET Omega == call[3]
            x == call[4]
            n == Len(stack)
        IN  /\ n = Cardinality(Omega)
            /\ {stack[i] : i \in 1..n} = Omega
            /\ \A i \in 1..n, j \in 1..n :
                  i < j => MrvSize(stack[i], x) >= MrvSize(stack[j], x)
            /\ \A f \in Omega : MrvSize(stack[n], x) <= MrvSize(f, x)
            /\ \A i \in 1..n, j \in 1..n :
                  (i # j /\ Occurs(stack[i], stack[j])) => i < j

\* rewrite has returned for Omega = {exp(x + exp(-x)), exp(x), exp(-x)}:
\* exp(x + exp(-x)), with two members in its mrv set, was substituted first,
\* before exp(-x) which it contains
C27_Witness ==
    /\ Done("rewrite")
    /\ res[1] # "err"
    /\ Len(stack) = 3
    /\ stack[1] = ExpSum
    /\ MrvSize(stack[1], call[4]) = 2
    /\ MrvSize(stack[3], call[4]) = 1
    /\ \E j \in 2..3 : stack[j] = <<"exp", <<"mul", MinusOne, {symx}>>>>

----------------------------------------------------------------------------
(* Properties of the sets mrv returns and of the set rewrite is given.     *)

\* the arguments <<e, Omega>> with which mrv_leadterm(e, x, Omega0) calls
\* rewrite, after any moves up; <<>> when it returns before that call
RECURSIVE RewriteArgs(_, _, _)
RewriteArgs(e, x, Omega0) ==
    IF e[1] = "err" THEN <<>>
    ELSE IF ~has(e, x) THEN <<>>
    ELSE LET kept == {t \in Omega0 : subexp(e, t)}
             Om   == IF kept = {} THEN mrv(e, x) ELSE SetOf(kept)
         IN  IF Om[1] = "err" THEN <<>>
             ELSE IF x \in Om[2]
                  THEN RewriteArgs(subs(e, x, exp(x)), x, moveup(Om[2], x))
             ELSE <<e, Om[2]>>

\* S is empty, {x}, or has exp nodes only
MrvShape(S, x) == S = {} \/ S = {x} \/ \A t \in S : t[1] = "exp"

\* C23: a set returned by mrv(e, x) is empty, {x}, or has exp nodes only,
\* and when mrv_leadterm(e, x) calls rewrite the set it passes is not empty
\* and has exp nodes only, so the assertions at the head of rewrite hold.
C23_MrvShape ==
    /\ (Done("mrv") /\ res[1] # "err") => MrvShape(res[2], call[3])
    /\ Done("mrv_leadterm") =>
          LET a == RewriteArgs(call[2], call[3], {})
          IN  a # <<>> =>
                 /\ a[2] # {}
                 /\ \A t \in a[2] : t[1] = "exp"
                 /\ call[3] \notin a[2]

\* mrv_leadterm(log(x) + x, x) has returned: mrv gave {x}, the expression was
\* moved up and rewrite was called with {exp(exp(x))} or {exp(x), ...}
C23_Witness ==
    /\ Done("mrv_leadterm")
    /\ call[2] = <<"add", {<<"log", symx>>, symx}>>
    /\ mrv(call[2], symx) = SetOf({symx})
    /\ RewriteArgs(call[2], symx, {}) # <<>>
    /\ RewriteArgs(call[2], symx, {})[1] # call[2]

----------------------------------------------------------------------------
(* Properties of has.                                                      *)

\* C24: e.has(s) is true exactly when the symbol s occurs in e, whatever the
\* name of s, subexp(e, sub) is true exactly when sub occurs in e, and mrv,
\* whose first test is has, never returns the empty set of a constant for an
\* expression in which x occurs.
C24_HasOccurs ==
    /\ Done("has") => (res[2] <=> Occurs(call[2], call[3]))
    /\ Done("subexp") => (res[2] <=> Occurs(call[2], call[3]))
    /\ (Done("mrv") /\ Occurs(call[2], call[3])) => res # SetOf({})

----------------------------------------------------------------------------
(* Properties of moveup and movedown.                                      *)

\* C25: movedown(moveup(l, x), x) == l and moveup(movedown(l, x), x) == l:
\* the second move returns the list the first move was given.
C25_MoveRoundTrip ==
    /\ (Done("movedown") /\ stack # <<>>) => res = stack
    /\ (Done("moveup") /\ stack # <<>>) => res = stack

\* movedown has returned [log(x) + x] from moveup's [x + exp(x)], where
\* log(exp(x)) became x on the way up and exp(log(x)) became x on the way down
C25_Witness ==
    /\ Done("movedown")
    /\ stack = <<<<"add", {<<"log", symx>>, symx}>>>>
    /\ call[2] = <<<<"add", {<<"exp", symx>>, symx}>>>>
    /\ res = stack

----------------------------------------------------------------------------
(* Properties of leadterm in the older core.                               *)

\* C26: leadterm(x) on a node of the older core that is not evaluated
\* returns, after finitely many frames, the leading term of the node's
\* canonical form, for every node, also one whose eval() returns the node
\* itself without calling hold().
C26_SymLeadtermTerminates ==
    /\ (pc = "running") ~> (pc = "done")
    /\ [](Done("sym_leadterm") =>
             res = leadterm(Canonical(call[2][4]), call[3]))

====
